---- MODULE Spec2Model ----
(***************************************************************************)
(* Verification model of ds-porter: the content-addressable pull cache     *)
(* (Client.PullArtifact), the manifest/platform selector, the exporter     *)
(* (destination mode and tar+gzip extraction) and the multi-arch           *)
(* publisher (Pusher.PushAll / Pusher.PushIndex).                          *)
(***************************************************************************)
EXTENDS Integers, Sequences, FiniteSets, TLC

(***************************************************************************)
(* Bounds of the model                                                     *)
(***************************************************************************)
\* PullArtifact calls begun in one behaviour of the sequential specification
MaxPulls == 4
\* PullArtifact calls begun in one behaviour of the concurrent specification
MaxConcPulls == 2
\* manifests of an OCI index handed to the selector
MaxManifests == 3
\* platforms of an export filter (ExportOptions.Platforms)
MaxTargets == 2
\* entries of a publish manifest description (Manifest.Manifests)
MaxEntries == 3
\* entries of an extracted tar+gzip layer
MaxArchive == 2
\* symbolic links followed while resolving one path (the kernel's limit)
MaxHops == 3
\* --platform flags of one pull command
MaxSelections == 2
\* entries of the configured registry list (Config.Registries)
MaxRegistries == 2

(***************************************************************************)
(* Part 1: Client.PullArtifact and the cache root                          *)
(***************************************************************************)

\* length of an artifact id: fmt.Sprintf("%x", sha256...)[:16] and
\* desc.Digest.Encoded()[:16]
IdLen == 16

Rep(c, n) == [i \in 1..n |-> c]

Take(s, n) == SubSeq(s, 1, n)

\* the references of the pulls; BadRef is one name.ParseReference rejects
RefV1 == "reg.example/app:v1"
RefStable == "reg.example/app:stable"
BadRef == "reg.example/App::"
Refs == {RefV1, RefStable}

ParseReferenceOk(ref) == ref \in Refs

\* content digests the registry can answer with (algorithm and hex part)
DigestA == [alg |-> "sha256", hex |-> Rep("a", 16) \o <<"0", "1">>]
DigestB == [alg |-> "sha256", hex |-> Rep("b", 16) \o <<"0", "2">>]
Digests == {DigestA, DigestB}
NoDigest == [alg |-> "", hex |-> <<>>]

\* digest.Encoded(): the hex part
Encoded(d) == d.hex

\* fmt.Sprintf("%x", sha256.Sum256([]byte(ref))): the hex of the hash of the
\* reference string, as a table over the references of the model
Sha256Hex(ref) ==
    CASE ref = RefV1 -> Rep("1", 16) \o <<"c", "3">>
      [] ref = RefStable -> Rep("2", 16) \o <<"d", "4">>
      [] OTHER -> Rep("3", 16) \o <<"e", "5">>

\* artifactID := fmt.Sprintf("%x", sha256.Sum256([]byte(ref)))[:16]
TempId(ref) == Take(Sha256Hex(ref), IdLen)

\* finalArtifactID := desc.Digest.Encoded()[:16]
FinalId(d) == Take(Encoded(d), IdLen)

CacheDir == "cache"

\* filepath.Join(c.config.CacheDir, id)
CachePath(id) == <<CacheDir, id>>

DirNames == {TempId(r) : r \in Refs} \cup {FinalId(d) : d \in Digests}

\* metadata.json: the fields of ArtifactResult the claims read
NoMeta == [present |-> FALSE, id |-> <<>>, reference |-> "", digest |-> NoDigest,
           localPath |-> <<>>]

\* a subdirectory of the cache root: an OCI layout (index.json, blobs) and
\* the metadata.json sidecar
Absent == [exists |-> FALSE, index |-> {}, blobs |-> {}, meta |-> NoMeta]

VARIABLES
    cache,      \* cache root: directory name -> directory
    pull,       \* per invocation of PullArtifact: its position and locals
    lastOf,     \* per caller: what its latest PullArtifact call returned
    lastProc,   \* the caller whose call returned most recently
    first,      \* per digest: id and LocalPath of the first successful pull
    started,    \* number of PullArtifact calls begun
    pullFailed, \* some PullArtifact call returned an error
    envFault    \* the OS failed a rename or a removal of a temporary directory

pullVars == <<cache, pull, lastOf, lastProc, first, started, pullFailed, envFault>>

\* the manifest selector
VARIABLES
    selRoot,    \* the root descriptor: an index with its manifests, or a manifest
    selOpts,    \* ExportOptions
    selResult   \* what selectManifests returned

selVars == <<selRoot, selOpts, selResult>>

\* the publisher and the registry it pushes to
VARIABLES
    pushIn,         \* the call: entry point, reference, manifest description, TagLatest
    push,           \* position and locals of the publish in progress
    regManifests,   \* registry: the manifests stored, by repository and digest
    regTags,        \* registry: repository and tag -> digest
    tags0,          \* the registry's tags when the publish began
    tempArchives    \* temporary tar+gzip archives present on disk

pushVars == <<pushIn, push, regManifests, regTags, tags0, tempArchives>>

\* extraction of a tar+gzip layer
VARIABLES
    tarIn,      \* the archive: its entries in order
    tar,        \* extractTarGz: position, extracted paths, error
    xfs,        \* the filesystem: path -> directory, file or symbolic link
    touched     \* the filesystem objects extraction created or wrote

tarVars == <<tarIn, tar, xfs, touched>>

\* the exporter
VARIABLES
    expIn,      \* the call: entry point, artifact, flags or options, destination
    expOut      \* what the export returned and did to the filesystem

expVars == <<expIn, expOut>>

\* registry credentials
VARIABLES
    credIn,     \* the configured registry list and the registry asked for
    credOut     \* the credentials resolved, and those the transports carry

credVars == <<credIn, credOut>>

\* the installation store
VARIABLES
    instFiles,  \* the files below the store path: path -> the installation written
    instDirs,   \* the directories below the store path
    instSaved,  \* by namespace and name: the installation last saved and not deleted since
    instLast    \* the last call: its arguments, its error, what it changed

storeVars == <<instFiles, instDirs, instSaved, instLast>>

\* the delivery metadata of a pull result
VARIABLES
    metaIn,     \* the root descriptor's annotations, the root blob, index.json
    metaOut     \* the metadata PullArtifact put in its result

metaVars == <<metaIn, metaOut>>

vars == <<pullVars, selVars, pushVars, tarVars, expVars, credVars, storeVars, metaVars>>

\* what the credential lookups leave alone
offCred == <<pullVars, selVars, pushVars, tarVars, expVars, storeVars, metaVars>>

\* what the exporter leaves alone
offExport == <<pullVars, selVars, pushVars, tarVars, credVars, storeVars, metaVars>>

\* what extraction leaves alone
offTar == <<pullVars, selVars, pushVars, expVars, credVars, storeVars, metaVars>>

\* what the cache operations leave alone
offPull == <<selVars, pushVars, tarVars, expVars, credVars, storeVars, metaVars>>

\* what the selector leaves alone
offSelect == <<pullVars, pushVars, tarVars, expVars, credVars, storeVars, metaVars>>

\* what the publisher leaves alone
offPush == <<pullVars, selVars, tarVars, expVars, credVars, storeVars, metaVars>>

Procs == {"p1", "p2"}

IdlePull == [pc |-> "idle", ref |-> "", desc |-> NoDigest,
             artifactID |-> <<>>, cachePath |-> <<>>,
             finalArtifactID |-> <<>>, finalCachePath |-> <<>>,
             hit |-> FALSE,
             renameFailed |-> FALSE, removeFailed |-> FALSE]

DirAt(path) ==
    IF Len(path) = 2 /\ path[1] = CacheDir /\ path[2] \in DirNames
    THEN cache[path[2]] ELSE Absent

\* oci.New(root): opens the layout at root, creating it when missing
OciNew(dir) ==
    IF dir.exists THEN dir
    ELSE [exists |-> TRUE, index |-> {}, blobs |-> {}, meta |-> NoMeta]

\* oras.Copy into the store: the root blob (and its successors) are written
\* and the root is recorded in index.json
StoreCopy(dir, d) ==
    [OciNew(dir) EXCEPT !.index = @ \cup {d}, !.blobs = @ \cup {d}]

InFlight == {p \in Procs : pull[p].pc # "idle"}

NoResult ==
    [ok |-> FALSE, returned |-> FALSE, ref |-> "", digest |-> NoDigest,
     id |-> <<>>, localPath |-> <<>>, hit |-> FALSE,
     renameFailed |-> FALSE, removeFailed |-> FALSE, writeFailed |-> FALSE,
     dirExists |-> FALSE, tempLeft |-> FALSE]

ErrResult(ref) == [NoResult EXCEPT !.returned = TRUE, !.ref = ref]

NoFirst == [seen |-> FALSE, ref |-> "", id |-> <<>>, localPath |-> <<>>]

InitPull ==
    /\ cache = [n \in DirNames |-> Absent]
    /\ pull = [p \in Procs |-> IdlePull]
    /\ lastOf = [p \in Procs |-> NoResult]
    /\ lastProc = "p1"
    /\ first = [d \in Digests |-> NoFirst]
    /\ started = 0
    /\ pullFailed = FALSE
    /\ envFault = FALSE

\* a call returns res to caller p
Return(p, res) ==
    /\ lastOf' = [lastOf EXCEPT ![p] = res]
    /\ lastProc' = p
    /\ pullFailed' = (pullFailed \/ ~res.ok)
    /\ first' = IF res.ok /\ ~first[res.digest].seen
                THEN [first EXCEPT ![res.digest] =
                         [seen |-> TRUE, ref |-> res.ref, id |-> res.id,
                          localPath |-> res.localPath]]
                ELSE first

NoReturn == UNCHANGED <<lastOf, lastProc, pullFailed, first>>

\* PullArtifact up to oci.New: parse the reference, derive the temporary id
\* from the hash of the reference, open the store at the temporary path
BeginPull(p, ref, storeOk) ==
    /\ pull[p].pc = "idle"
    /\ started' = started + 1
    /\ envFault' = envFault
    /\ IF ~ParseReferenceOk(ref) \/ ~storeOk
       THEN /\ Return(p, ErrResult(ref))
            /\ UNCHANGED <<cache, pull>>
       ELSE /\ cache' = [cache EXCEPT ![TempId(ref)] = OciNew(@)]
            /\ pull' = [pull EXCEPT ![p] =
                   [IdlePull EXCEPT !.pc = "copy", !.ref = ref,
                                    !.artifactID = TempId(ref),
                                    !.cachePath = CachePath(TempId(ref))]]
            /\ NoReturn
    /\ UNCHANGED offPull

\* desc, err := oras.Copy(...); then the final id and path from the digest
CopyArtifact(p, d, copyOk) ==
    /\ pull[p].pc = "copy"
    /\ UNCHANGED <<envFault, started>>
    /\ IF ~copyOk
       THEN /\ Return(p, ErrResult(pull[p].ref))
            /\ pull' = [pull EXCEPT ![p] = IdlePull]
            /\ UNCHANGED cache
       ELSE /\ cache' = [cache EXCEPT ![pull[p].artifactID] = StoreCopy(@, d)]
            /\ pull' = [pull EXCEPT ![p] =
                   [@ EXCEPT !.desc = d,
                             !.finalArtifactID = FinalId(d),
                             !.finalCachePath = CachePath(FinalId(d)),
                             !.pc = IF CachePath(FinalId(d)) # pull[p].cachePath
                                    THEN "stat" ELSE "save"]]
            /\ NoReturn
    /\ UNCHANGED offPull

\* variant: the existence check left out, the rename always attempted
StatFinalSkipped(p) ==
    /\ pull[p].pc = "stat"
    /\ pull' = [pull EXCEPT ![p] =
           [@ EXCEPT !.pc = "rename",
                     !.hit = DirAt(pull[p].finalCachePath).exists]]
    /\ UNCHANGED <<cache, envFault, started>>
    /\ NoReturn
    /\ UNCHANGED offPull

\* if _, err := os.Stat(finalCachePath); err == nil
StatFinal(p) ==
    /\ pull[p].pc = "stat"
    /\ pull' = [pull EXCEPT ![p] =
           [@ EXCEPT !.pc = IF DirAt(pull[p].finalCachePath).exists
                            THEN "remove" ELSE "rename",
                     !.hit = DirAt(pull[p].finalCachePath).exists]]
    /\ UNCHANGED <<cache, envFault, started>>
    /\ NoReturn
    /\ UNCHANGED offPull

\* variant: the removal aimed at the committed directory
RemoveTempFinalPath(p, removeOk) ==
    /\ pull[p].pc = "remove"
    /\ cache' = IF removeOk
                THEN [cache EXCEPT ![pull[p].finalArtifactID] = Absent]
                ELSE cache
    /\ pull' = [pull EXCEPT ![p] =
           [@ EXCEPT !.pc = "save", !.removeFailed = ~removeOk]]
    /\ envFault' = (envFault \/ ~removeOk)
    /\ UNCHANGED started
    /\ NoReturn
    /\ UNCHANGED offPull

\* os.RemoveAll(cachePath); a failure is logged and the pull goes on
RemoveTemp(p, removeOk) ==
    /\ pull[p].pc = "remove"
    /\ cache' = IF removeOk
                THEN [cache EXCEPT ![pull[p].artifactID] = Absent]
                ELSE cache
    /\ pull' = [pull EXCEPT ![p] =
           [@ EXCEPT !.pc = "save", !.removeFailed = ~removeOk]]
    /\ envFault' = (envFault \/ ~removeOk)
    /\ UNCHANGED started
    /\ NoReturn
    /\ UNCHANGED offPull

\* os.Rename of a directory: the source must exist and the target must not
\* be a non-empty directory (a committed entry always holds its layout)
RenameSucceeds(p, osOk) ==
    /\ osOk
    /\ DirAt(pull[p].cachePath).exists
    /\ ~DirAt(pull[p].finalCachePath).exists

\* variant: a failed rename that keeps the digest-derived id and path
RenameTempNoFallback(p, osOk) ==
    /\ pull[p].pc = "rename"
    /\ IF RenameSucceeds(p, osOk)
       THEN /\ cache' = [cache EXCEPT
                   ![pull[p].finalArtifactID] = cache[pull[p].artifactID],
                   ![pull[p].artifactID] = Absent]
            /\ pull' = [pull EXCEPT ![p] = [@ EXCEPT !.pc = "save"]]
       ELSE /\ cache' = cache
            /\ pull' = [pull EXCEPT ![p] =
                   [@ EXCEPT !.pc = "save", !.renameFailed = TRUE]]
    /\ envFault' = (envFault \/ ~osOk)
    /\ UNCHANGED started
    /\ NoReturn
    /\ UNCHANGED offPull

\* variant: a failed rename that falls back to the temporary id and path
\* but discards the temporary directory
RenameTempDiscards(p, osOk) ==
    /\ pull[p].pc = "rename"
    /\ IF RenameSucceeds(p, osOk)
       THEN /\ cache' = [cache EXCEPT
                   ![pull[p].finalArtifactID] = cache[pull[p].artifactID],
                   ![pull[p].artifactID] = Absent]
            /\ pull' = [pull EXCEPT ![p] = [@ EXCEPT !.pc = "save"]]
       ELSE /\ cache' = [cache EXCEPT ![pull[p].artifactID] = Absent]
            /\ pull' = [pull EXCEPT ![p] =
                   [@ EXCEPT !.pc = "save", !.renameFailed = TRUE,
                             !.finalArtifactID = pull[p].artifactID,
                             !.finalCachePath = pull[p].cachePath]]
    /\ envFault' = (envFault \/ ~osOk)
    /\ UNCHANGED started
    /\ NoReturn
    /\ UNCHANGED offPull

\* os.Rename(cachePath, finalCachePath), falling back to the temporary id
\* and path when it fails
RenameTemp(p, osOk) ==
    /\ pull[p].pc = "rename"
    /\ IF RenameSucceeds(p, osOk)
       THEN /\ cache' = [cache EXCEPT
                   ![pull[p].finalArtifactID] = cache[pull[p].artifactID],
                   ![pull[p].artifactID] = Absent]
            /\ pull' = [pull EXCEPT ![p] = [@ EXCEPT !.pc = "save"]]
       ELSE /\ cache' = cache
            /\ pull' = [pull EXCEPT ![p] =
                   [@ EXCEPT !.pc = "save", !.renameFailed = TRUE,
                             !.finalArtifactID = pull[p].artifactID,
                             !.finalCachePath = pull[p].cachePath]]
    /\ envFault' = (envFault \/ ~osOk)
    /\ UNCHANGED started
    /\ NoReturn
    /\ UNCHANGED offPull

\* the ArtifactResult of a pull, as metadata.json records it
MetaOf(p) ==
    [present |-> TRUE, id |-> pull[p].finalArtifactID,
     reference |-> pull[p].ref, digest |-> pull[p].desc,
     localPath |-> pull[p].finalCachePath]

\* saveArtifactMetadata: os.WriteFile(<CacheDir>/<artifact.ID>/metadata.json);
\* the write needs the directory to exist
SaveArtifactMetadata(dirs, p, writeOk) ==
    IF writeOk /\ dirs[pull[p].finalArtifactID].exists
    THEN [dirs EXCEPT ![pull[p].finalArtifactID] = [@ EXCEPT !.meta = MetaOf(p)]]
    ELSE dirs

\* variant: a failed write of the sidecar fails the pull
SaveAndReturnStrict(p, writeOk) ==
    /\ pull[p].pc = "save"
    /\ cache' = SaveArtifactMetadata(cache, p, writeOk)
    /\ Return(p,
           IF ~writeOk THEN ErrResult(pull[p].ref)
           ELSE [ok |-> TRUE, returned |-> TRUE, ref |-> pull[p].ref,
                 digest |-> pull[p].desc,
                 id |-> pull[p].finalArtifactID,
                 localPath |-> pull[p].finalCachePath,
                 hit |-> pull[p].hit,
                 renameFailed |-> pull[p].renameFailed,
                 removeFailed |-> pull[p].removeFailed,
                 writeFailed |-> ~writeOk,
                 dirExists |-> cache'[pull[p].finalArtifactID].exists,
                 tempLeft |-> cache'[pull[p].artifactID].exists])
    /\ pull' = [pull EXCEPT ![p] = IdlePull]
    /\ UNCHANGED <<envFault, started>>
    /\ UNCHANGED offPull

\* the rest of PullArtifact: build the result, save the sidecar (a failure
\* is logged only), return the result
SaveAndReturn(p, writeOk) ==
    /\ pull[p].pc = "save"
    /\ cache' = SaveArtifactMetadata(cache, p, writeOk)
    /\ Return(p,
           [ok |-> TRUE, returned |-> TRUE, ref |-> pull[p].ref,
            digest |-> pull[p].desc,
            id |-> pull[p].finalArtifactID,
            localPath |-> pull[p].finalCachePath,
            hit |-> pull[p].hit,
            renameFailed |-> pull[p].renameFailed,
            removeFailed |-> pull[p].removeFailed,
            writeFailed |-> ~writeOk,
            dirExists |-> cache'[pull[p].finalArtifactID].exists,
            tempLeft |-> cache'[pull[p].artifactID].exists])
    /\ pull' = [pull EXCEPT ![p] = IdlePull]
    /\ UNCHANGED <<envFault, started>>
    /\ UNCHANGED offPull

PullSteps(p) ==
    \/ \E d \in Digests, ok \in BOOLEAN : CopyArtifact(p, d, ok)
    \/ StatFinal(p)
    \/ \E ok \in BOOLEAN : RemoveTemp(p, ok)
    \/ \E ok \in BOOLEAN : RenameTemp(p, ok)
    \/ \E ok \in BOOLEAN : SaveAndReturn(p, ok)

\* concurrent invocations of PullArtifact on one cache root
BeginPullConc(p, ref, storeOk) ==
    /\ started < MaxConcPulls
    /\ BeginPull(p, ref, storeOk)

Next ==
    \/ \E p \in Procs, ref \in Refs \cup {BadRef}, ok \in BOOLEAN :
           BeginPullConc(p, ref, ok)
    \/ \E p \in Procs : PullSteps(p)

\* one caller, one invocation at a time: the next pull begins when the
\* previous one has returned
SeqProc == "p1"

BeginPullSeq(ref, storeOk) ==
    /\ started < MaxPulls
    /\ BeginPull(SeqProc, ref, storeOk)

NextSeq ==
    \/ \E ref \in Refs \cup {BadRef}, ok \in BOOLEAN : BeginPullSeq(ref, ok)
    \/ PullSteps(SeqProc)

(***************************************************************************)
(* Claims about PullArtifact                                               *)
(***************************************************************************)

\* what the latest call of the sequential caller returned
LastSeq == lastOf[SeqProc]

\* the cache subdirectories that hold the root blob of digest d
HoldersOf(d) == {n \in DirNames : cache[n].exists /\ d \in cache[n].blobs}

TempDirsLeft == {r \in Refs : cache[TempId(r)].exists}

\* C1 as stated: after every successful pull the returned id is the first
\* 16 hex characters of the root digest and LocalPath is the cache
\* subdirectory of that name.
C1_IdAlwaysDigestDerived ==
    LastSeq.ok =>
        /\ LastSeq.id = Take(Encoded(LastSeq.digest), 16)
        /\ LastSeq.localPath = <<CacheDir, LastSeq.id>>

\* C1 amended: after every successful pull LocalPath is the existing cache
\* subdirectory named by the returned id; the id is the first 16 hex
\* characters of the root digest unless the rename of the temporary
\* directory failed, and then it is the temporary id (the first 16 hex
\* characters of the hash of the reference).
C1_IdDigestDerivedUnlessRenameFailed ==
    LastSeq.ok =>
        /\ LastSeq.localPath = <<CacheDir, LastSeq.id>>
        /\ LastSeq.dirExists
        /\ ~LastSeq.renameFailed => LastSeq.id = Take(Encoded(LastSeq.digest), 16)
        /\ LastSeq.renameFailed => LastSeq.id = Take(Sha256Hex(LastSeq.ref), 16)

C1_Witness ==
    /\ LastSeq.ok /\ ~LastSeq.renameFailed /\ ~LastSeq.hit
    /\ LastSeq.id = Take(Encoded(LastSeq.digest), 16)
    /\ cache[LastSeq.id].exists

\* a pull that found the digest-named directory present takes a step
HitStep(p) == pull[p].hit /\ pull[p].pc \in {"remove", "save"} /\ pull'[p] # pull[p]

\* C2 as stated: on a deduplication hit the pull discards its temporary
\* directory, returns no error and leaves every file of the committed
\* directory (index.json, blobs, metadata.json) unchanged.
C2_CommittedEntryNeverTouched ==
    [][\A p \in Procs : HitStep(p) =>
          /\ cache'[pull[p].finalArtifactID] = cache[pull[p].finalArtifactID]
          /\ pull'[p].pc = "idle" =>
                 lastOf'[p].ok /\ ~cache'[pull[p].artifactID].exists]_pullVars

\* C2 amended: on a deduplication hit the pull returns no error, removes
\* its temporary directory unless os.RemoveAll fails (then it is left
\* behind), and leaves index.json and the blobs of the committed directory
\* unchanged; metadata.json of the committed directory is rewritten with
\* this pull's result unless the write fails.
C2_CommittedLayoutKeptSidecarRewritten ==
    [][\A p \in Procs : HitStep(p) =>
          LET old == cache[pull[p].finalArtifactID]
              new == cache'[pull[p].finalArtifactID]
          IN /\ new.exists /\ new.index = old.index /\ new.blobs = old.blobs
             /\ pull'[p].pc # "idle" => new.meta = old.meta
             /\ pull'[p].pc = "idle" =>
                    /\ lastOf'[p].ok
                    /\ lastOf'[p].id = pull[p].finalArtifactID
                    /\ ~lastOf'[p].removeFailed => ~cache'[pull[p].artifactID].exists
                    /\ ~lastOf'[p].writeFailed => new.meta = MetaOf(p)
                    /\ lastOf'[p].writeFailed => new.meta = old.meta]_pullVars

C2_Witness ==
    /\ LastSeq.ok /\ LastSeq.hit /\ ~LastSeq.removeFailed /\ ~LastSeq.tempLeft
    /\ cache[LastSeq.id].meta.present
    /\ cache[LastSeq.id].meta.reference = LastSeq.ref
    /\ first[LastSeq.digest].ref # LastSeq.ref

C4_ConcurrentSameDigestSafe ==
    LET a == lastOf["p1"]
        b == lastOf["p2"]
    IN (/\ \A p \in Procs : pull[p].pc = "idle"
        /\ ~envFault /\ ~pullFailed
        /\ a.ok /\ b.ok /\ a.ref # b.ref /\ a.digest = b.digest) =>
           /\ a.id = Take(Encoded(a.digest), 16) /\ b.id = a.id
           /\ a.localPath = <<CacheDir, a.id>> /\ b.localPath = a.localPath
           /\ HoldersOf(a.digest) = {a.id}
           /\ TempDirsLeft = {}

\* a pull whose rename of the temporary directory failed returns
ReturnsAfterFailedRename(p) ==
    pull[p].pc = "save" /\ pull[p].renameFailed /\ pull'[p].pc = "idle"

\* C15: when the rename of the temporary directory to the digest-named
\* path fails (the target not being there), the pull still succeeds: it
\* returns the temporary id, derived from the hash of the reference, and
\* the temporary directory as LocalPath, and that directory exists and
\* holds the pulled content.
C15_RenameFailureKeepsTemp ==
    [][ReturnsAfterFailedRename(SeqProc) =>
          LET res == lastOf'[SeqProc]
          IN /\ res.ok
             /\ res.id = Take(Sha256Hex(res.ref), 16)
             /\ res.localPath = <<CacheDir, res.id>>
             /\ cache'[res.id].exists
             /\ res.digest \in cache'[res.id].blobs
             /\ res.digest \in cache'[res.id].index]_pullVars

\* the latest pull returned after a failed rename, and its temporary
\* directory is there with the content
C15_Witness ==
    /\ pull[SeqProc].pc = "idle"
    /\ LastSeq.ok /\ LastSeq.renameFailed
    /\ LastSeq.id = TempId(LastSeq.ref)
    /\ cache[LastSeq.id].exists /\ LastSeq.digest \in cache[LastSeq.id].blobs

\* a pull whose content was copied returns
ReturnsAfterCopy(p) == pull[p].pc = "save" /\ pull'[p].pc = "idle"

\* C16: a failure to write metadata.json does not fail the pull: whether
\* the write succeeds or not, the pull returns no error and the id, digest
\* and LocalPath it had settled on before the write.
C16_SidecarFailureIgnored ==
    [][ReturnsAfterCopy(SeqProc) =>
          LET res == lastOf'[SeqProc]
          IN /\ res.ok
             /\ res.id = pull[SeqProc].finalArtifactID
             /\ res.digest = pull[SeqProc].desc
             /\ res.localPath = pull[SeqProc].finalCachePath]_pullVars

\* the latest pull returned although its sidecar could not be written
C16_Witness ==
    /\ pull[SeqProc].pc = "idle"
    /\ LastSeq.ok /\ LastSeq.writeFailed
    /\ cache[LastSeq.id].exists /\ ~cache[LastSeq.id].meta.present

\* C20 as stated: once a successful pull has returned LocalPath P, no later
\* pull removes, renames or empties P: the directory the first successful
\* pull of a digest returned exists and holds that digest ever after.
C20_NeverEvicts ==
    \A d \in Digests :
        first[d].seen =>
            /\ DirAt(first[d].localPath).exists
            /\ d \in DirAt(first[d].localPath).blobs

\* no PullArtifact call is in progress
NoPullRunning == \A p \in Procs : pull[p].pc = "idle"

\* some PullArtifact call returned a result
SomePullSucceeded == \E d \in Digests : first[d].seen

\* C26: a cache subdirectory comes into existence only through a
\* successful pull: between calls, when no pull has succeeded yet (every
\* call so far returned an error), the cache root, empty at the start, has
\* no subdirectory.
C26_NoDirectoryWithoutSuccess ==
    (NoPullRunning /\ ~SomePullSucceeded) => \A n \in DirNames : ~cache[n].exists

\* the copy failed, the pull returned its error, and the directory oci.New
\* had created under the hash of the reference is still there
C26_TempDirLeftByFailedCopy ==
    /\ NoPullRunning /\ ~SomePullSucceeded /\ started = 1
    /\ LastSeq.returned /\ ~LastSeq.ok
    /\ \E r \in Refs : LastSeq.ref = r /\ cache[TempId(r)].exists

\* invocation q was started on the reference invocation p is pulling
SameReference(p, q) ==
    /\ p # q /\ pull[p].pc # "idle"
    /\ \/ pull[q].pc # "idle" /\ pull[q].ref = pull[p].ref
       \/ lastOf[q].returned /\ lastOf[q].ref = pull[p].ref

\* p's step takes the temporary directory away (os.RemoveAll or os.Rename)
\* while q, on the same reference, has opened it and not finished copying
TakesTempFromCopier(p, q) ==
    /\ SameReference(p, q)
    /\ pull[q].pc = "copy"
    /\ pull[p].pc \in {"remove", "rename"} /\ pull'[p].pc = "save"
    /\ cache[pull[p].artifactID].exists /\ ~cache'[pull[p].artifactID].exists

\* p returns a result whose LocalPath is missing or lacks the root blob
ReturnsWithoutBlob(p) ==
    /\ pull[p].pc = "save" /\ lastOf'[p].ok
    /\ ~(cache'[pull[p].finalArtifactID].exists
         /\ pull[p].desc \in cache'[pull[p].finalArtifactID].blobs)

\* C27: for two concurrent pulls of one reference on one cache root, under
\* every interleaving neither removes or renames the shared temporary
\* directory while the other is still copying into it, and every pull that
\* returns a result returns a LocalPath that is an existing directory
\* holding the root blob.
C27_ConcurrentSameReferenceSafe ==
    [][\A p, q \in Procs :
          /\ ~TakesTempFromCopier(p, q)
          /\ SameReference(p, q) => ~ReturnsWithoutBlob(p)]_vars

\* both invocations hold the same temporary directory, one has copied and
\* is about to rename it, the other is still copying
C27_RenameUnderCopier ==
    /\ pull["p1"].pc = "rename" /\ pull["p2"].pc = "copy"
    /\ pull["p1"].ref = pull["p2"].ref
    /\ cache[pull["p1"].artifactID].exists
    /\ ~envFault

\* C30: after any sequence of pulls, every cache subdirectory that holds a
\* metadata.json holds a record whose id is the subdirectory's name and
\* whose local_path is that subdirectory, so every entry that
\* ListCachedArtifacts returns can be looked up by its id and points at an
\* existing directory.
C30_SidecarNamesItsDirectory ==
    NoPullRunning =>
        \A n \in DirNames :
            (cache[n].exists /\ cache[n].meta.present) =>
                /\ cache[n].meta.id = n
                /\ cache[n].meta.localPath = CachePath(n)
                /\ DirAt(cache[n].meta.localPath).exists

\* a digest-named directory holds the record of an earlier pull that had
\* fallen back to the temporary path
C30_StaleSidecar ==
    /\ NoPullRunning
    /\ \E d \in Digests :
          /\ cache[FinalId(d)].exists /\ cache[FinalId(d)].meta.present
          /\ cache[FinalId(d)].meta.id # FinalId(d)
          /\ ~DirAt(cache[FinalId(d)].meta.localPath).exists

(***************************************************************************)
(* Part 2: Client.selectManifests and platformMatches                      *)
(***************************************************************************)

\* strings.ToLower on the strings of the model (EqualFold compares under
\* case folding)
ToLower(str) ==
    CASE str = "Linux" -> "linux"
      [] str = "LINUX" -> "linux"
      [] str = "ARM64" -> "arm64"
      [] str = "AMD64" -> "amd64"
      [] str = "Windows" -> "windows"
      [] str = "V8" -> "v8"
      [] OTHER -> str

\* strings.EqualFold
EqualFold(a, b) == ToLower(a) = ToLower(b)

\* *ocispec.Platform: a nil pointer, or OS / Architecture / Variant
Plat(os, arch, variant) ==
    [nil |-> FALSE, os |-> os, arch |-> arch, variant |-> variant]
NilPlatform == [nil |-> TRUE, os |-> "", arch |-> "", variant |-> ""]

\* the platforms the manifests of the model's indexes carry
ManifestPlatforms ==
    {NilPlatform, Plat("", "", ""), Plat("linux", "amd64", ""),
     Plat("linux", "arm64", ""), Plat("darwin", "amd64", ""),
     Plat("Linux", "ARM64", "v8")}

\* the platforms a filter asks for
TargetPlatforms ==
    {Plat("linux", "arm64", ""), Plat("windows", "amd64", ""),
     Plat("LINUX", "arm64", "V8"), Plat("linux", "arm64", "v7")}

SeqsUpTo(S, n) == UNION {[1..k -> S] : k \in 0..n}

\* index.Manifests: descriptors, told apart by their position-derived digest
IndexManifests(plats) ==
    [i \in 1..Len(plats) |-> [digest |-> i, platform |-> plats[i]]]

NoSelection == [done |-> FALSE, err |-> "", selections |-> <<>>]

\* variant: the fields compared exactly
PlatformMatchesCaseSensitive(platform, targets) ==
    IF Len(targets) = 0 THEN TRUE
    ELSE IF platform.nil THEN Len(targets) = 1
    ELSE \E i \in 1..Len(targets) :
            /\ targets[i].os = platform.os
            /\ targets[i].arch = platform.arch
            /\ (targets[i].variant = ""
                \/ targets[i].variant = platform.variant)

\* platformMatches(platform, targets)
PlatformMatches(platform, targets) ==
    IF Len(targets) = 0 THEN TRUE
    ELSE IF platform.nil THEN Len(targets) = 1
    ELSE \E i \in 1..Len(targets) :
            /\ EqualFold(targets[i].os, platform.os)
            /\ EqualFold(targets[i].arch, platform.arch)
            /\ (targets[i].variant = ""
                \/ EqualFold(targets[i].variant, platform.variant))

\* the loop over index.Manifests
RECURSIVE FilterManifests(_, _)
FilterManifests(manifests, opts) ==
    IF manifests = <<>> THEN <<>>
    ELSE LET m == Head(manifests)
             rest == FilterManifests(Tail(manifests), opts)
         IN IF opts.allPlatforms \/ PlatformMatches(m.platform, opts.platforms)
            THEN <<m>> \o rest ELSE rest

ErrNoRequested == "no manifests found for requested platform(s)"
ErrNoManifests == "no manifests found in index"
ErrReadIndex == "failed to read index"

\* variant: without the error for an explicit filter that selects nothing
SelectManifestsNoHardStop(root, opts, readOk) ==
    IF root.isIndex
    THEN IF ~readOk
         THEN [done |-> TRUE, err |-> ErrReadIndex, selections |-> <<>>]
         ELSE LET selections == FilterManifests(root.manifests, opts)
              IN IF Len(selections) = 0
                 THEN IF Len(root.manifests) = 1
                      THEN [done |-> TRUE, err |-> "",
                            selections |-> <<root.manifests[1]>>]
                      ELSE [done |-> TRUE, err |-> ErrNoManifests,
                            selections |-> <<>>]
                 ELSE [done |-> TRUE, err |-> "", selections |-> selections]
    ELSE [done |-> TRUE, err |-> "",
          selections |-> <<[digest |-> 0, platform |-> root.platform]>>]

\* variant: an empty selection is returned as it is
SelectManifestsEmptyOk(root, opts, readOk) ==
    IF root.isIndex
    THEN IF ~readOk
         THEN [done |-> TRUE, err |-> ErrReadIndex, selections |-> <<>>]
         ELSE LET selections == FilterManifests(root.manifests, opts)
              IN IF Len(selections) = 0 /\ ~opts.allPlatforms
                    /\ Len(opts.platforms) > 0
                 THEN [done |-> TRUE, err |-> ErrNoRequested,
                       selections |-> <<>>]
                 ELSE [done |-> TRUE, err |-> "", selections |-> selections]
    ELSE [done |-> TRUE, err |-> "",
          selections |-> <<[digest |-> 0, platform |-> root.platform]>>]

\* selectManifests(ctx, store, root, opts); readOk: the index blob can be
\* fetched and parsed
SelectManifests(root, opts, readOk) ==
    IF root.isIndex
    THEN IF ~readOk
         THEN [done |-> TRUE, err |-> ErrReadIndex, selections |-> <<>>]
         ELSE LET selections == FilterManifests(root.manifests, opts)
              IN IF Len(selections) = 0 /\ ~opts.allPlatforms
                    /\ Len(opts.platforms) > 0
                 THEN [done |-> TRUE, err |-> ErrNoRequested,
                       selections |-> <<>>]
                 ELSE IF Len(selections) = 0
                 THEN IF Len(root.manifests) = 1
                      THEN [done |-> TRUE, err |-> "",
                            selections |-> <<root.manifests[1]>>]
                      ELSE [done |-> TRUE, err |-> ErrNoManifests,
                            selections |-> <<>>]
                 ELSE [done |-> TRUE, err |-> "", selections |-> selections]
    ELSE [done |-> TRUE, err |-> "",
          selections |-> <<[digest |-> 0, platform |-> root.platform]>>]

NoRoot == [isIndex |-> FALSE, manifests |-> <<>>, platform |-> NilPlatform]
NoOpts == [allPlatforms |-> FALSE, platforms |-> <<>>]

\* the selector is not in use
SelectParked == selRoot = NoRoot /\ selOpts = NoOpts /\ selResult = NoSelection

\* the roots and filters the selector is applied to
InitSelect ==
    /\ \/ \E plats \in SeqsUpTo(ManifestPlatforms, MaxManifests) :
             selRoot = [isIndex |-> TRUE, manifests |-> IndexManifests(plats),
                        platform |-> NilPlatform]
       \/ \E pf \in {NilPlatform, Plat("linux", "amd64", "")} :
             selRoot = [isIndex |-> FALSE, manifests |-> <<>>, platform |-> pf]
    /\ \E all \in BOOLEAN, targets \in SeqsUpTo(TargetPlatforms, MaxTargets) :
          selOpts = [allPlatforms |-> all, platforms |-> targets]
    /\ selResult = NoSelection

Select(readOk) ==
    /\ ~selResult.done
    /\ selResult' = SelectManifests(selRoot, selOpts, readOk)
    /\ UNCHANGED <<selRoot, selOpts>>
    /\ UNCHANGED offSelect

NextSelect == \E readOk \in BOOLEAN : Select(readOk)

\* the manifest's platform matches one of the filter's platforms: OS and
\* architecture equal ignoring case, the filter's variant empty or equal
\* (ignoring case, as for the other fields) to the manifest's variant
MatchesOneOf(platform, targets) ==
    /\ ~platform.nil
    /\ \E i \in 1..Len(targets) :
          /\ ToLower(targets[i].os) = ToLower(platform.os)
          /\ ToLower(targets[i].arch) = ToLower(platform.arch)
          /\ (targets[i].variant = ""
              \/ ToLower(targets[i].variant) = ToLower(platform.variant))

IndexPositions == 1..Len(selRoot.manifests)

SelectedDigests == {selResult.selections[i].digest : i \in 1..Len(selResult.selections)}

SelectRan == selResult.done /\ selRoot.isIndex /\ selResult.err # ErrReadIndex

\* C7 as stated: for an index root a manifest is selected iff allPlatforms
\* is set or its platform matches one of filter.platforms, so the number
\* of selected manifests is the number of matching manifests.
C7_SelectedIffAllOrMatch ==
    SelectRan =>
        /\ \A i \in IndexPositions :
              i \in SelectedDigests <=>
                 (selOpts.allPlatforms
                  \/ MatchesOneOf(selRoot.manifests[i].platform, selOpts.platforms))
        /\ Len(selResult.selections) = Cardinality(SelectedDigests)

\* C7 amended: a manifest is selected iff allPlatforms is set, or the
\* filter's platform list is empty, or the manifest has no platform and the
\* filter names exactly one platform, or the manifest's platform matches one
\* of the filter's platforms; each selected manifest is returned once, in
\* index order.
C7_SelectedIffAllOrEmptyOrNilOrMatch ==
    SelectRan =>
        /\ \A i \in IndexPositions :
              i \in SelectedDigests <=>
                 \/ selOpts.allPlatforms
                 \/ Len(selOpts.platforms) = 0
                 \/ selRoot.manifests[i].platform.nil /\ Len(selOpts.platforms) = 1
                 \/ MatchesOneOf(selRoot.manifests[i].platform, selOpts.platforms)
        /\ Len(selResult.selections) = Cardinality(SelectedDigests)
        /\ \A j \in 1..Len(selResult.selections) :
              /\ selResult.selections[j] = selRoot.manifests[selResult.selections[j].digest]
              /\ j > 1 => selResult.selections[j - 1].digest < selResult.selections[j].digest

\* linux/arm64 asked of an index of linux/amd64, linux/arm64, darwin/amd64:
\* one manifest selected, the second
C7_Witness ==
    /\ SelectRan /\ ~selOpts.allPlatforms
    /\ selOpts.platforms = <<Plat("linux", "arm64", "")>>
    /\ selRoot.manifests = IndexManifests(<<Plat("linux", "amd64", ""),
           Plat("linux", "arm64", ""), Plat("darwin", "amd64", "")>>)
    /\ Len(selResult.selections) = 1
    /\ selResult.selections[1].digest = 2

ExplicitFilter == ~selOpts.allPlatforms /\ Len(selOpts.platforms) > 0

NoManifestMatches ==
    \A i \in IndexPositions :
        ~MatchesOneOf(selRoot.manifests[i].platform, selOpts.platforms)

\* C8 as stated: an explicit non-empty filter that no manifest of the
\* index matches gives the error "no manifests found for requested
\* platform(s)" and never a selection.
C8_NoMatchIsError ==
    (SelectRan /\ ExplicitFilter /\ NoManifestMatches) =>
        /\ selResult.err = ErrNoRequested
        /\ selResult.selections = <<>>

\* C8 amended: the same, unless the filter names exactly one platform and
\* the index holds a manifest without platform metadata: then exactly the
\* manifests without platform metadata are returned and there is no error.
C8_NoMatchIsErrorUnlessNilPlatform ==
    (SelectRan /\ ExplicitFilter /\ NoManifestMatches) =>
        LET nils == {i \in IndexPositions : selRoot.manifests[i].platform.nil}
        IN IF Len(selOpts.platforms) = 1 /\ nils # {}
           THEN selResult.err = "" /\ SelectedDigests = nils
           ELSE selResult.err = ErrNoRequested /\ selResult.selections = <<>>

\* windows/amd64 asked of an index of linux/amd64, linux/arm64, darwin/amd64
C8_Witness ==
    /\ SelectRan /\ ExplicitFilter /\ NoManifestMatches
    /\ selOpts.platforms = <<Plat("windows", "amd64", "")>>
    /\ selRoot.manifests = IndexManifests(<<Plat("linux", "amd64", ""),
           Plat("linux", "arm64", ""), Plat("darwin", "amd64", "")>>)
    /\ selResult.err = ErrNoRequested

\* the index was read, no platform is asked for and the loop over its
\* manifests selected none
NothingSelectedUnasked ==
    /\ SelectRan /\ selRoot.isIndex /\ selResult.err # ErrReadIndex
    /\ Len(selOpts.platforms) = 0
    /\ FilterManifests(selRoot.manifests, selOpts) = <<>>

C22_OnlyEmptyIndex == NothingSelectedUnasked => selRoot.manifests = <<>>

(***************************************************************************)
(* Part 3: Client.PushArtifact and release.Pusher (Push, PushAll,          *)
(* PushBinary, PushIndex)                                                  *)
(***************************************************************************)

\* a reference, as the segments strings.Split(ref, ":") yields
RefTagged == <<"reg.example/app", "v1">>
RefUntagged == <<"reg.example/app">>
RefPortTagged == <<"localhost", "5000/app", "v1">>
RefPortUntagged == <<"localhost", "5000/app">>
RefUpper == <<"reg.example/App", "v1">>
PushRefs == {RefTagged, RefUntagged, RefPortTagged, RefPortUntagged, RefUpper}

\* name.ParseReference: repository names are lower case
ParsePushReferenceOk(ref) == ref # RefUpper

\* baseRef: the reference, ":latest" appended when it holds no colon
BaseRef(ref) == IF Len(ref) < 2 THEN ref \o <<"latest">> ELSE ref

\* parts := strings.Split(baseRef, ":"); baseTag := parts[len(parts)-1]
BaseTag(ref) == BaseRef(ref)[Len(BaseRef(ref))]

\* repoName := strings.TrimSuffix(baseRef, ":"+baseTag)
RepoName(ref) == SubSeq(BaseRef(ref), 1, Len(BaseRef(ref)) - 1)

\* splitReference(ref): cut at the last colon
SplitReference(ref) ==
    LET base == IF Len(ref) < 2 THEN ref \o <<"latest">> ELSE ref
    IN [repo |-> SubSeq(base, 1, Len(base) - 1), tag |-> base[Len(base)]]

\* remote.NewRepository(repoName): the name needs a registry and a
\* repository path, so its part after the last colon holds a slash
NewRepositoryOk(repo) ==
    Len(repo) > 0 /\ repo[Len(repo)] \in {"reg.example/app", "reg.example/App", "5000/app"}

RepoNames == {RepoName(r) : r \in PushRefs} \cup {SplitReference(r).repo : r \in PushRefs}
TagNames == {BaseTag(r) : r \in PushRefs} \cup {"latest"}
TagKeys == RepoNames \X TagNames

\* release.Platform
RPlatform(os, arch, variant) == [os |-> os, arch |-> arch, variant |-> variant]

\* ParsePlatform, on the parts strings.Split(s, "/") yields (none for "")
ParsePlatform(parts) ==
    RPlatform(IF Len(parts) > 0 THEN parts[1] ELSE "",
              IF Len(parts) > 1 THEN parts[2] ELSE "",
              IF Len(parts) > 2 THEN parts[3] ELSE "")

\* release.ManifestEntry: platform string, path, and whether the path is a
\* directory
EntryChoices ==
    {[platform |-> <<"linux", "amd64">>, path |-> "bin/amd64", isDir |-> FALSE],
     [platform |-> <<"linux", "arm64", "v8">>, path |-> "dist/arm64", isDir |-> TRUE],
     [platform |-> <<>>, path |-> "bin/any", isDir |-> FALSE],
     [platform |-> <<"linux", "amd64">>, path |-> "dist/amd64", isDir |-> TRUE]}

\* digests of what the registry stores
NoTag == [kind |-> "none", path |-> "", manifests |-> {}]
OldDigest == [kind |-> "old", path |-> "", manifests |-> {}]
\* PushBinary: the manifest packed around the entry's file
ManifestDigest(entry) == [kind |-> "manifest", path |-> entry.path, manifests |-> {}]
\* PushIndex: the index over the descriptors, each with its platform
IndexDigest(descriptors) ==
    [kind |-> "index", path |-> "",
     manifests |-> {[platform |-> pf, digest |-> descriptors[pf]] : pf \in DOMAIN descriptors}]

EmptyMap == [x \in {} |-> x]

IdlePush ==
    [pc |-> "idle", i |-> 1, entries |-> EmptyMap, cleanups |-> {},
     descriptors |-> EmptyMap, err |-> "", platformFailed |-> FALSE,
     indexRan |-> FALSE, refWithTag |-> <<>>, resolved |-> NoTag,
     removeFailed |-> FALSE]

\* the registry before the publish: no tags, the version tags present, or
\* the version tags and latest present
TagsBefore(which) ==
    [k \in TagKeys |->
        IF which = "versions" /\ k[2] # "latest" THEN OldDigest
        ELSE IF which = "all" THEN OldDigest
        ELSE NoTag]

\* the path of the manifest description: none given, or a file
ManifestPaths == {"", "release.yaml"}

\* PushArtifact always sets TagLatest; Pusher.Push takes it from its config;
\* without a path there is no manifest description to take entries from
InitPush ==
    /\ \E caller \in {"PushArtifact", "Push"}, ref \in PushRefs, path \in ManifestPaths,
          es \in SeqsUpTo(EntryChoices, MaxEntries), tl \in BOOLEAN :
          /\ caller = "PushArtifact" => tl
          /\ path = "" => es = <<>>
          /\ pushIn = [caller |-> caller, ref |-> ref, path |-> path, entries |-> es,
                       tagLatest |-> tl]
    /\ push = IdlePush
    /\ regManifests = {}
    /\ \E which \in {"none", "versions", "all"} : regTags = TagsBefore(which)
    /\ tags0 = regTags
    /\ tempArchives = {}

PushParked ==
    /\ pushIn = [caller |-> "Push", ref |-> RefTagged, path |-> "release.yaml",
                 entries |-> <<>>, tagLatest |-> FALSE]
    /\ push = IdlePush
    /\ regManifests = {}
    /\ regTags = TagsBefore("none")
    /\ tags0 = regTags
    /\ tempArchives = {}

\* the deferred cleanups of PushArtifact: os.Remove of every archive, its
\* error ignored
RunCleanups(rmOk) ==
    tempArchives' = IF rmOk THEN tempArchives \ push.cleanups ELSE tempArchives

\* os.Remove of an archive failed, now or earlier
RemoveFailed(rmOk) == push.removeFailed \/ (~rmOk /\ push.cleanups # {})

\* variant: an error return that skips the deferred cleanups
FailPushNoCleanups(err, rmOk) ==
    /\ push' = [push EXCEPT !.pc = "done", !.err = err]
    /\ UNCHANGED tempArchives

\* return with an error
FailPush(err, rmOk) ==
    /\ push' = [push EXCEPT !.pc = "done", !.err = err,
                            !.removeFailed = RemoveFailed(rmOk)]
    /\ RunCleanups(rmOk)

\* the map[Platform]ManifestEntry built by Pusher.Push
RECURSIVE EntriesMap(_)
EntriesMap(es) ==
    IF es = <<>> THEN EmptyMap
    ELSE LET last == es[Len(es)]
         IN (ParsePlatform(last.platform) :> last) @@ EntriesMap(SubSeq(es, 1, Len(es) - 1))

\* PushArtifact up to the preparation loop; Pusher.Push up to PushAll
BeginPush(loadOk, rmOk) ==
    /\ push.pc = "idle"
    /\ IF pushIn.caller = "PushArtifact" /\ pushIn.path = ""
       THEN FailPush("manifest or artifact path required", rmOk)
       ELSE IF ~loadOk \/ pushIn.path = ""
       THEN FailPush("failed to load manifest", rmOk)
       ELSE IF pushIn.caller = "Push"
       THEN /\ push' = [push EXCEPT !.pc = "pushAll", !.entries = EntriesMap(pushIn.entries)]
            /\ UNCHANGED tempArchives
       ELSE IF Len(pushIn.entries) = 0
       THEN FailPush("manifest must contain at least one entry", rmOk)
       ELSE /\ push' = [push EXCEPT !.pc = "prepare"]
            /\ UNCHANGED tempArchives
    /\ UNCHANGED <<pushIn, regManifests, regTags, tags0>>
    /\ UNCHANGED offPush

\* one round of the preparation loop (prepareManifestEntry), and after the
\* last round name.ParseReference
PrepareEntry(statOk, archiveOk, rmOk) ==
    /\ push.pc = "prepare"
    /\ LET entry == pushIn.entries[push.i]
           last == push.i = Len(pushIn.entries)
       IN IF ~statOk
          THEN FailPush("manifest entry path", rmOk)
          ELSE IF entry.isDir /\ ~archiveOk
          THEN \* createArchiveFromDirectory removes what it wrote, then the
               \* deferred cleanups run
               /\ push' = [push EXCEPT !.pc = "done", !.err = "failed to archive directory",
                                       !.removeFailed = ~rmOk]
               /\ tempArchives' = IF rmOk THEN tempArchives \ push.cleanups
                                  ELSE tempArchives \cup {push.i}
          ELSE LET cl == IF entry.isDir THEN push.cleanups \cup {push.i} ELSE push.cleanups
                   es == (ParsePlatform(entry.platform) :> entry) @@ push.entries
               IN IF last /\ ~ParsePushReferenceOk(pushIn.ref)
                  THEN /\ push' = [push EXCEPT !.pc = "done", !.err = "invalid reference",
                                               !.cleanups = cl, !.entries = es,
                                               !.removeFailed = ~rmOk /\ cl # {}]
                       /\ tempArchives' =
                             IF rmOk THEN tempArchives \ cl
                             ELSE tempArchives \cup (cl \ push.cleanups)
                  ELSE /\ push' = [push EXCEPT !.pc = IF last THEN "pushAll" ELSE "prepare",
                                               !.i = push.i + 1,
                                               !.cleanups = cl, !.entries = es]
                       /\ tempArchives' = tempArchives \cup (cl \ push.cleanups)
    /\ UNCHANGED <<pushIn, regManifests, regTags, tags0>>
    /\ UNCHANGED offPush

\* the platforms PushAll has not pushed yet
Remaining == DOMAIN push.entries \ DOMAIN push.descriptors

\* variant: PushBinary storing the manifest under the requested tag
PushBinaryByTag(pf, copyOk, rmOk) ==
    /\ push.pc = "pushAll"
    /\ pf \in Remaining
    /\ IF NewRepositoryOk(RepoName(pushIn.ref)) /\ copyOk
       THEN /\ regManifests' = regManifests \cup
                   {[repo |-> RepoName(pushIn.ref), digest |-> ManifestDigest(push.entries[pf])]}
            /\ regTags' = [regTags EXCEPT ![<<RepoName(pushIn.ref), BaseTag(pushIn.ref)>>] =
                                              ManifestDigest(push.entries[pf])]
            /\ push' = [push EXCEPT !.descriptors =
                           (pf :> ManifestDigest(push.entries[pf])) @@ push.descriptors,
                           !.pc = IF Remaining = {pf} THEN "pushIndex" ELSE "pushAll"]
            /\ UNCHANGED tempArchives
       ELSE /\ push' = [push EXCEPT !.pc = "done", !.err = "failed to push",
                                    !.platformFailed = TRUE,
                                    !.removeFailed = RemoveFailed(rmOk)]
            /\ RunCleanups(rmOk)
            /\ UNCHANGED <<regManifests, regTags>>
    /\ UNCHANGED <<pushIn, tags0>>
    /\ UNCHANGED offPush

\* one round of the loop of PushAll: PushBinary for a platform of the map
\* (Go iterates a map in no fixed order), by digest
PushBinary(pf, copyOk, rmOk) ==
    /\ push.pc = "pushAll"
    /\ pf \in Remaining
    /\ IF NewRepositoryOk(RepoName(pushIn.ref)) /\ copyOk
       THEN /\ regManifests' = regManifests \cup
                   {[repo |-> RepoName(pushIn.ref), digest |-> ManifestDigest(push.entries[pf])]}
            /\ push' = [push EXCEPT !.descriptors =
                           (pf :> ManifestDigest(push.entries[pf])) @@ push.descriptors,
                           !.pc = IF Remaining = {pf} THEN "pushIndex" ELSE "pushAll"]
            /\ UNCHANGED <<tempArchives, regTags>>
       ELSE /\ push' = [push EXCEPT !.pc = "done", !.err = "failed to push",
                                    !.platformFailed = TRUE,
                                    !.removeFailed = RemoveFailed(rmOk)]
            /\ RunCleanups(rmOk)
            /\ UNCHANGED <<regManifests, regTags>>
    /\ UNCHANGED <<pushIn, tags0>>
    /\ UNCHANGED offPush

\* PushAll over an empty map returns at once
PushNothing ==
    /\ push.pc = "pushAll"
    /\ DOMAIN push.entries = {}
    /\ push' = [push EXCEPT !.pc = "pushIndex"]
    /\ UNCHANGED <<pushIn, regManifests, regTags, tags0, tempArchives>>
    /\ UNCHANGED offPush

\* variant: PushIndex moving latest whatever the configuration says
PushIndexLatestAlways(copyOk, rmOk) ==
    /\ push.pc = "pushIndex"
    /\ IF NewRepositoryOk(RepoName(pushIn.ref)) /\ copyOk
       THEN /\ regManifests' = regManifests \cup
                   {[repo |-> RepoName(pushIn.ref), digest |-> IndexDigest(push.descriptors)]}
            /\ regTags' = [regTags EXCEPT ![<<RepoName(pushIn.ref), BaseTag(pushIn.ref)>>] =
                                              IndexDigest(push.descriptors),
                                          ![<<RepoName(pushIn.ref), "latest">>] =
                                              IndexDigest(push.descriptors)]
            /\ push' = [push EXCEPT !.indexRan = TRUE, !.pc = "pushed",
                           !.refWithTag = BaseRef(pushIn.ref)]
            /\ UNCHANGED tempArchives
       ELSE /\ push' = [push EXCEPT !.pc = "done", !.err = "push index failed",
                                    !.indexRan = TRUE,
                                    !.removeFailed = RemoveFailed(rmOk)]
            /\ RunCleanups(rmOk)
            /\ UNCHANGED <<regManifests, regTags>>
    /\ UNCHANGED <<pushIn, tags0>>
    /\ UNCHANGED offPush

\* PushIndex up to the copy of the index to the repository under the tag
PushIndex(copyOk, rmOk) ==
    /\ push.pc = "pushIndex"
    /\ IF NewRepositoryOk(RepoName(pushIn.ref)) /\ copyOk
       THEN /\ regManifests' = regManifests \cup
                   {[repo |-> RepoName(pushIn.ref), digest |-> IndexDigest(push.descriptors)]}
            /\ regTags' = [regTags EXCEPT ![<<RepoName(pushIn.ref), BaseTag(pushIn.ref)>>] =
                                              IndexDigest(push.descriptors)]
            /\ push' = [push EXCEPT !.indexRan = TRUE,
                           !.pc = IF pushIn.tagLatest /\ BaseTag(pushIn.ref) # "latest"
                                  THEN "tagLatest" ELSE "pushed",
                           !.refWithTag = BaseRef(pushIn.ref)]
            /\ UNCHANGED tempArchives
       ELSE /\ push' = [push EXCEPT !.pc = "done", !.err = "push index failed",
                                    !.indexRan = TRUE,
                                    !.removeFailed = RemoveFailed(rmOk)]
            /\ RunCleanups(rmOk)
            /\ UNCHANGED <<regManifests, regTags>>
    /\ UNCHANGED <<pushIn, tags0>>
    /\ UNCHANGED offPush

\* PushIndex: repo.Tag(ctx, indexDesc, "latest")
TagLatest(tagOk, rmOk) ==
    /\ push.pc = "tagLatest"
    /\ IF tagOk
       THEN /\ regTags' = [regTags EXCEPT ![<<RepoName(pushIn.ref), "latest">>] =
                                              IndexDigest(push.descriptors)]
            /\ push' = [push EXCEPT !.pc = "pushed"]
            /\ UNCHANGED tempArchives
       ELSE /\ FailPush("failed to tag latest", rmOk)
            /\ UNCHANGED regTags
    /\ UNCHANGED <<pushIn, regManifests, tags0>>
    /\ UNCHANGED offPush

\* after PushIndex: Pusher.Push returns; PushArtifact resolves the tag of
\* splitReference(ref) and returns the result
ResolvePushed(resolveOk, rmOk) ==
    /\ push.pc = "pushed"
    /\ IF pushIn.caller = "Push"
       THEN /\ push' = [push EXCEPT !.pc = "done"]
            /\ UNCHANGED tempArchives
       ELSE LET sp == SplitReference(pushIn.ref)
            IN IF NewRepositoryOk(sp.repo) /\ resolveOk
                  /\ regTags[<<sp.repo, sp.tag>>] # NoTag
               THEN /\ push' = [push EXCEPT !.pc = "done",
                                   !.resolved = regTags[<<sp.repo, sp.tag>>],
                                   !.removeFailed = RemoveFailed(rmOk)]
                    /\ RunCleanups(rmOk)
               ELSE FailPush("failed to resolve pushed artifact", rmOk)
    /\ UNCHANGED <<pushIn, regManifests, regTags, tags0>>
    /\ UNCHANGED offPush

NextPush ==
    \/ \E loadOk \in BOOLEAN, rmOk \in BOOLEAN : BeginPush(loadOk, rmOk)
    \/ \E statOk \in BOOLEAN, archiveOk \in BOOLEAN, rmOk \in BOOLEAN :
          PrepareEntry(statOk, archiveOk, rmOk)
    \/ \E pf \in DOMAIN push.entries, copyOk \in BOOLEAN, rmOk \in BOOLEAN :
          PushBinary(pf, copyOk, rmOk)
    \/ PushNothing
    \/ \E copyOk \in BOOLEAN, rmOk \in BOOLEAN : PushIndex(copyOk, rmOk)
    \/ \E tagOk \in BOOLEAN, rmOk \in BOOLEAN : TagLatest(tagOk, rmOk)
    \/ \E resolveOk \in BOOLEAN, rmOk \in BOOLEAN : ResolvePushed(resolveOk, rmOk)

\* the index is in the target repository
IndexStored == \E m \in regManifests : m.digest.kind = "index"

\* C5: while the platform manifests are being pushed no tag of the
\* registry is created or moved, and once the push of a platform has
\* failed the publish has returned an error without running PushIndex: no
\* index is stored and every tag, the requested one included, resolves to
\* what it resolved to before the publish.
C5_NoTagBeforeIndex ==
    /\ push.pc \in {"pushAll", "pushIndex"} => regTags = tags0 /\ ~IndexStored
    /\ push.platformFailed =>
          /\ push.pc = "done" /\ push.err # ""
          /\ ~push.indexRan /\ ~IndexStored
          /\ regTags = tags0

\* the second of three platform pushes has failed, the requested tag was
\* there before
C5_Witness ==
    /\ push.platformFailed
    /\ Cardinality(DOMAIN push.entries) = 3
    /\ Cardinality(DOMAIN push.descriptors) = 1
    /\ regManifests # {}
    /\ tags0[<<RepoName(pushIn.ref), BaseTag(pushIn.ref)>>] = OldDigest


\* PushIndex has returned without an error
PushIndexSucceeded ==
    \/ push.pc = "pushed"
    \/ /\ push.pc = "done" /\ push.indexRan
       /\ push.err \notin {"push index failed", "failed to tag latest"}

\* the tag PushIndex was asked for, in the target repository
RequestedTag == <<RepoName(pushIn.ref), BaseTag(pushIn.ref)>>
LatestTag == <<RepoName(pushIn.ref), "latest">>

\* C13: after a successful PushIndex with requested tag T, when tagLatest
\* is set and T is not latest, T and latest both resolve to the digest of
\* the index; when tagLatest is not set or T is latest, no tag other than T
\* is created or moved.
C13_LatestFollowsTag ==
    PushIndexSucceeded =>
        /\ regTags[RequestedTag] = IndexDigest(push.descriptors)
        /\ (pushIn.tagLatest /\ BaseTag(pushIn.ref) # "latest") =>
              regTags[LatestTag] = regTags[RequestedTag]
        /\ (~pushIn.tagLatest \/ BaseTag(pushIn.ref) = "latest") =>
              \A k \in TagKeys \ {RequestedTag} : regTags[k] = tags0[k]

\* PushIndex succeeded for a version tag with tagLatest set, latest having
\* pointed elsewhere before
C13_Witness ==
    /\ PushIndexSucceeded
    /\ pushIn.tagLatest /\ BaseTag(pushIn.ref) = "v1"
    /\ tags0[LatestTag] = OldDigest
    /\ regTags[LatestTag] = IndexDigest(push.descriptors)
    /\ DOMAIN push.descriptors # {}

\* the publish was rejected for its input: the reference is malformed or
\* no path was given
PushInputRejected ==
    /\ push.pc = "done"
    /\ push.err \in {"invalid reference", "manifest or artifact path required"}

\* C14 as stated, for the publish: once a malformed reference or an empty
\* path has been rejected, no registry request was issued (nothing is
\* stored, no tag moved) and no file was created or removed (no archive of
\* a directory entry was written to the temporary directory).
C14_InputRejectedBeforeEffects ==
    PushInputRejected =>
        /\ regManifests = {} /\ regTags = tags0
        /\ push.cleanups = {} /\ tempArchives = {}

\* PushArtifact returned and every os.Remove it issued succeeded
PushArtifactReturned == pushIn.caller = "PushArtifact" /\ push.pc = "done"

HoldsSlash(segment) == segment \in {"reg.example/app", "reg.example/App", "5000/app"}

\* registry/repo[:tag] as name.ParseReference reads it: the tag follows the
\* last colon unless a slash comes after that colon (the colon then
\* belongs to the port of the host), and is latest when there is none
RefTag(ref) ==
    IF Len(ref) >= 2 /\ ~HoldsSlash(ref[Len(ref)]) THEN ref[Len(ref)] ELSE "latest"

RefRepository(ref) ==
    IF Len(ref) >= 2 /\ ~HoldsSlash(ref[Len(ref)]) THEN SubSeq(ref, 1, Len(ref) - 1)
    ELSE ref

\* the Pusher is at work on a reference name.ParseReference accepts
PusherAtWork ==
    /\ ParsePushReferenceOk(pushIn.ref)
    /\ push.pc \in {"pushAll", "pushIndex", "tagLatest", "pushed"} \/ push.indexRan
       \/ push.platformFailed

\* C25: for every accepted reference registry/repo[:tag], with or without
\* a port in the host, the platform manifests and the index go to the
\* repository registry/repo, the index is tagged tag, or latest when the
\* reference has no tag, and PushIndex returns registry/repo:tag.
C25_PushesToRepositoryAndTag ==
    PusherAtWork =>
        /\ RepoName(pushIn.ref) = RefRepository(pushIn.ref)
        /\ BaseTag(pushIn.ref) = RefTag(pushIn.ref)
        /\ \A m \in regManifests : m.repo = RefRepository(pushIn.ref)
        /\ PushIndexSucceeded =>
              /\ regTags[<<RefRepository(pushIn.ref), RefTag(pushIn.ref)>>] =
                    IndexDigest(push.descriptors)
              /\ push.refWithTag = RefRepository(pushIn.ref) \o <<RefTag(pushIn.ref)>>

\* a reference with a port and no tag: the first PushBinary cannot open the
\* repository and the publish fails with nothing pushed
C25_PortWithoutTagFails ==
    /\ pushIn.ref = RefPortUntagged /\ push.platformFailed
    /\ regManifests = {}

\* the manifest descriptors of the index PushIndex pushed
IndexManifestsPushed == IndexDigest(push.descriptors).manifests

\* C28: every entry of the manifest description's list is pushed and
\* referenced by the resulting index, which has exactly one manifest
\* descriptor per listed entry, also when two entries name the same
\* platform or leave it empty.
C28_IndexListsEveryEntry ==
    PushIndexSucceeded =>
        /\ Cardinality(IndexManifestsPushed) = Len(pushIn.entries)
        /\ \A i \in 1..Len(pushIn.entries) :
              /\ \E m \in IndexManifestsPushed :
                    m.digest = ManifestDigest(pushIn.entries[i])
              /\ \E m \in regManifests : m.digest = ManifestDigest(pushIn.entries[i])

\* two entries for linux/amd64 with different paths: the index was pushed
\* with one manifest, and the first entry's file was never pushed
C28_EntryDropped ==
    /\ PushIndexSucceeded
    /\ Len(pushIn.entries) = 2
    /\ pushIn.entries[1].platform = pushIn.entries[2].platform
    /\ pushIn.entries[1].path # pushIn.entries[2].path
    /\ Cardinality(IndexManifestsPushed) = 1
    /\ \A m \in regManifests : m.digest # ManifestDigest(pushIn.entries[1])

\* the publish returned an error
PublishFailed == push.pc = "done" /\ push.err # ""

\* the copy of the index to the repository, under the requested tag, went
\* through
IndexCopied == push.indexRan /\ push.err # "push index failed"

\* C29 as stated: a publish that returns an error leaves every tag of the
\* target repository as it was before the call, also when the latest
\* tagging or the final resolve fails.
C29_FailedPublishMovesNoTag == PublishFailed => regTags = tags0

\* C29 amended: a publish that returns an error before the index copy has
\* gone through leaves every tag as it was; one that fails at the latest
\* tagging has moved the requested tag to the new index and left latest
\* alone; one that fails at the final resolve has moved the requested tag
\* and, when latest tagging is on, latest.
C29_FailedPublishMovesTagsOnlyAfterIndex ==
    PublishFailed =>
        regTags =
            IF ~IndexCopied THEN tags0
            ELSE IF push.err = "failed to tag latest"
            THEN [tags0 EXCEPT ![RequestedTag] = IndexDigest(push.descriptors)]
            ELSE [k \in DOMAIN tags0 |->
                    IF k = RequestedTag \/ (pushIn.tagLatest /\ k = LatestTag)
                    THEN IndexDigest(push.descriptors) ELSE tags0[k]]

\* the index went up under the requested tag and the latest tagging failed:
\* the publish returned the error with the requested tag moved
C29_Witness ==
    /\ PublishFailed /\ push.err = "failed to tag latest"
    /\ regTags[RequestedTag] = IndexDigest(push.descriptors)
    /\ tags0[RequestedTag] = OldDigest
    /\ regTags[LatestTag] = tags0[LatestTag]

(***************************************************************************)
(* Part 4: extractTarGz                                                    *)
(***************************************************************************)

\* a path is the sequence of its components; absolute paths start at <<>>
Destination == <<"work", "out">>

Parent(path) == IF path = <<>> THEN <<>> ELSE SubSeq(path, 1, Len(path) - 1)

IsUnder(root, path) == Len(path) >= Len(root) /\ SubSeq(path, 1, Len(root)) = root

\* header.Name and header.Linkname: rooted or not, and the components
\* between the separators
Name(abs, parts) == [abs |-> abs, parts |-> parts]
NoLink == Name(FALSE, <<>>)

\* filepath.Clean, on the components
RECURSIVE CleanParts(_, _, _)
CleanParts(parts, acc, abs) ==
    IF parts = <<>> THEN acc
    ELSE LET c == Head(parts)
         IN IF c = "." \/ c = "" THEN CleanParts(Tail(parts), acc, abs)
            ELSE IF c = ".."
            THEN IF acc # <<>> /\ acc[Len(acc)] # ".."
                 THEN CleanParts(Tail(parts), Parent(acc), abs)
                 ELSE IF abs THEN CleanParts(Tail(parts), acc, abs)
                 ELSE CleanParts(Tail(parts), Append(acc, ".."), abs)
            ELSE CleanParts(Tail(parts), Append(acc, c), abs)

Clean(name) == Name(name.abs, CleanParts(name.parts, <<>>, name.abs))

\* strings.HasPrefix(cleanName, ".."): the cleaned name is not rooted and
\* its first component begins with two dots
HasDotDotPrefix(clean) ==
    ~clean.abs /\ clean.parts # <<>> /\ clean.parts[1] \in {"..", "..data"}

\* filepath.Join(destination, cleanName)
Join(dir, clean) == dir \o clean.parts

EntryNames ==
    {Name(FALSE, <<"a">>), Name(FALSE, <<"l">>), Name(FALSE, <<"l", "x">>),
     Name(FALSE, <<"..", "..", "etc", "passwd">>),
     Name(FALSE, <<"a", "..", "..", "x">>),
     Name(FALSE, <<"..data">>), Name(TRUE, <<"etc", "x">>)}

LinkNames == {Name(FALSE, <<"..">>), Name(TRUE, <<"etc">>), Name(FALSE, <<"a">>)}

\* tar headers: directories, regular files, symbolic links, other types
ArchiveEntries ==
    {[name |-> n, type |-> t, link |-> NoLink] : n \in EntryNames, t \in {"dir", "reg", "other"}}
    \cup {[name |-> n, type |-> "symlink", link |-> l] : n \in EntryNames, l \in LinkNames}

Node(kind, link) == [kind |-> kind, link |-> link]

KindAt(fs, path) == IF path \in DOMAIN fs THEN fs[path].kind ELSE "none"

\* the filesystem before extraction: the destination directory exists
Fs0 ==
    [path \in {<<>>, <<"work">>, Destination, <<"etc">>} |-> Node("dir", NoLink)]

NoWalk == [ok |-> FALSE, path |-> <<>>]

\* the kernel's resolution of a path all of whose components exist
RECURSIVE WalkExisting(_, _, _, _)
WalkExisting(fs, cur, rest, fuel) ==
    IF rest = <<>> THEN [ok |-> TRUE, path |-> cur]
    ELSE IF KindAt(fs, cur) # "dir" THEN NoWalk
    ELSE LET c == Head(rest)
             nxt == Append(cur, c)
         IN IF c = ".." THEN WalkExisting(fs, Parent(cur), Tail(rest), fuel)
            ELSE IF KindAt(fs, nxt) = "none" THEN NoWalk
            ELSE IF KindAt(fs, nxt) = "symlink"
            THEN IF fuel = 0 THEN NoWalk
                 ELSE WalkExisting(fs, IF fs[nxt].link.abs THEN <<>> ELSE cur,
                                   fs[nxt].link.parts \o Tail(rest), fuel - 1)
            ELSE WalkExisting(fs, nxt, Tail(rest), fuel)

\* os.MkdirAll(path): existing directories and symbolic links to
\* directories are walked through, missing directories are created; gives
\* the filesystem, the directory reached and the directories made
RECURSIVE MkdirAllFrom(_, _, _, _)
MkdirAllFrom(fs, cur, rest, made) ==
    IF rest = <<>> THEN [ok |-> TRUE, fs |-> fs, path |-> cur, made |-> made]
    ELSE LET nxt == Append(cur, Head(rest))
             kind == KindAt(fs, nxt)
         IN IF kind = "dir" THEN MkdirAllFrom(fs, nxt, Tail(rest), made)
            ELSE IF kind = "none"
            THEN MkdirAllFrom((nxt :> Node("dir", NoLink)) @@ fs, nxt, Tail(rest),
                              made \cup {nxt})
            ELSE IF kind = "symlink"
            THEN LET w == WalkExisting(fs, IF fs[nxt].link.abs THEN <<>> ELSE cur,
                                       fs[nxt].link.parts, MaxHops)
                 IN IF w.ok /\ KindAt(fs, w.path) = "dir"
                    THEN MkdirAllFrom(fs, w.path, Tail(rest), made)
                    ELSE [ok |-> FALSE, fs |-> fs, path |-> cur, made |-> made]
            ELSE [ok |-> FALSE, fs |-> fs, path |-> cur, made |-> made]

MkdirAll(fs, path) == MkdirAllFrom(fs, <<>>, path, {})

\* os.OpenFile(path, O_CREATE|O_WRONLY|O_TRUNC): the file the open creates
\* or truncates, a symbolic link in the last component followed
RECURSIVE OpenAt(_, _, _)
OpenAt(fs, path, fuel) ==
    LET kind == KindAt(fs, path)
    IN IF path = <<>> \/ kind = "dir" THEN NoWalk
       ELSE IF kind = "file" THEN [ok |-> TRUE, path |-> path]
       ELSE IF kind = "none"
       THEN IF KindAt(fs, Parent(path)) = "dir" THEN [ok |-> TRUE, path |-> path]
            ELSE NoWalk
       ELSE LET link == fs[path].link
                w == WalkExisting(fs, IF link.abs THEN <<>> ELSE Parent(path),
                                  Parent(link.parts), MaxHops)
            IN IF fuel = 0 \/ link.parts = <<>> \/ ~w.ok THEN NoWalk
               ELSE IF link.parts[Len(link.parts)] = ".." THEN NoWalk
               ELSE OpenAt(fs, Append(w.path, link.parts[Len(link.parts)]), fuel - 1)

\* one round of the loop of extractTarGz as a function: the filesystem
\* after the entry, the objects the round created or wrote, and the error
ExtractHeader(fs, header, dest) ==
    LET cleanName == Clean(header.name)
        targetPath == Join(dest, cleanName)
        res(f, made, err, listed) ==
            [fs |-> f, made |-> made, err |-> err, listed |-> listed,
             targetPath |-> targetPath]
    IN IF HasDotDotPrefix(cleanName) THEN res(fs, {}, "escapes destination", FALSE)
       ELSE IF header.type = "other" THEN res(fs, {}, "", FALSE)
       ELSE IF header.type = "dir"
       THEN LET m == MkdirAll(fs, targetPath)
            IN res(m.fs, m.made, IF m.ok THEN "" ELSE "failed to create directory", m.ok)
       ELSE LET m == MkdirAll(fs, Parent(targetPath))
                at == IF targetPath = Parent(targetPath) THEN m.path
                      ELSE Append(m.path, targetPath[Len(targetPath)])
            IN IF ~m.ok THEN res(m.fs, m.made, "failed to create path", FALSE)
               ELSE IF header.type = "reg"
               THEN LET f == OpenAt(m.fs, at, MaxHops)
                    IN IF f.ok
                       THEN res((f.path :> Node("file", NoLink)) @@ m.fs,
                                m.made \cup {f.path}, "", TRUE)
                       ELSE res(m.fs, m.made, "failed to create file", FALSE)
               ELSE IF KindAt(m.fs, at) = "none"
               THEN res((at :> Node("symlink", header.link)) @@ m.fs,
                        m.made \cup {at}, "", TRUE)
               ELSE res(m.fs, m.made, "failed to create symlink", FALSE)

\* the state of the loop of extractTarGz after one more header
ExtractStep(header, dest, acc) ==
    IF acc.err # "" THEN acc
    ELSE LET r == ExtractHeader(acc.fs, header, dest)
         IN [fs |-> r.fs, made |-> acc.made \cup r.made, err |-> r.err,
             extracted |-> IF r.err # "" THEN <<>>
                           ELSE IF r.listed THEN Append(acc.extracted, r.targetPath)
                           ELSE acc.extracted]

\* extractTarGz(reader, destination) as a function of the archive's
\* entries: the loop until io.EOF or the first error (the state after each
\* header is bound once, as a value)
RECURSIVE ExtractTarGz(_, _, _)
ExtractTarGz(entries, dest, acc) ==
    IF entries = <<>> THEN acc
    ELSE CHOOSE r \in {ExtractTarGz(Tail(entries), dest, a) :
                          a \in {ExtractStep(Head(entries), dest, acc)}} : TRUE

IdleTar == [pos |-> 1, done |-> FALSE, err |-> "", extracted |-> <<>>, rejected |-> FALSE]

InitTar ==
    /\ tarIn \in SeqsUpTo(ArchiveEntries, MaxArchive)
    /\ tar = IdleTar
    /\ xfs = Fs0
    /\ touched = {}

TarParked == tarIn = <<>> /\ tar = IdleTar /\ xfs = Fs0 /\ touched = {}

TarFail(err) == tar' = [tar EXCEPT !.done = TRUE, !.err = err, !.extracted = <<>>]

TarNext(targetPath) ==
    tar' = [tar EXCEPT !.pos = tar.pos + 1, !.extracted = Append(tar.extracted, targetPath)]

\* one round of the loop of extractTarGz: the entry at tarReader.Next();
\* ioOk: the operating system does not fail the round for other reasons
ExtractEntry(ioOk) ==
    /\ ~tar.done
    /\ tar.pos <= Len(tarIn)
    /\ LET header == tarIn[tar.pos]
           cleanName == Clean(header.name)
           targetPath == Join(Destination, cleanName)
       IN IF HasDotDotPrefix(cleanName)
          THEN /\ tar' = [tar EXCEPT !.done = TRUE, !.err = "escapes destination",
                                     !.extracted = <<>>, !.rejected = TRUE]
               /\ UNCHANGED <<xfs, touched>>
          ELSE IF header.type = "other"
          THEN /\ tar' = [tar EXCEPT !.pos = tar.pos + 1]
               /\ UNCHANGED <<xfs, touched>>
          ELSE IF ~ioOk
          THEN /\ TarFail("i/o error")
               /\ UNCHANGED <<xfs, touched>>
          ELSE IF header.type = "dir"
          THEN LET m == MkdirAll(xfs, targetPath)
               IN /\ xfs' = m.fs
                  /\ touched' = touched \cup m.made
                  /\ IF m.ok THEN TarNext(targetPath)
                     ELSE TarFail("failed to create directory")
          ELSE LET m == MkdirAll(xfs, Parent(targetPath))
                   at == IF targetPath = Parent(targetPath) THEN m.path
                         ELSE Append(m.path, targetPath[Len(targetPath)])
               IN IF ~m.ok
                  THEN /\ xfs' = m.fs
                       /\ touched' = touched \cup m.made
                       /\ TarFail("failed to create path")
                  ELSE IF header.type = "reg"
                  THEN LET f == OpenAt(m.fs, at, MaxHops)
                       IN IF f.ok
                          THEN /\ xfs' = (f.path :> Node("file", NoLink)) @@ m.fs
                               /\ touched' = touched \cup m.made \cup {f.path}
                               /\ TarNext(targetPath)
                          ELSE /\ xfs' = m.fs
                               /\ touched' = touched \cup m.made
                               /\ TarFail("failed to create file")
                  ELSE IF KindAt(m.fs, at) = "none"
                       THEN /\ xfs' = (at :> Node("symlink", header.link)) @@ m.fs
                            /\ touched' = touched \cup m.made \cup {at}
                            /\ TarNext(targetPath)
                       ELSE /\ xfs' = m.fs
                            /\ touched' = touched \cup m.made
                            /\ TarFail("failed to create symlink")
    /\ UNCHANGED tarIn
    /\ UNCHANGED offTar

\* io.EOF: extractTarGz returns the extracted paths
ExtractDone ==
    /\ ~tar.done
    /\ tar.pos > Len(tarIn)
    /\ tar' = [tar EXCEPT !.done = TRUE]
    /\ UNCHANGED <<tarIn, xfs, touched>>
    /\ UNCHANGED offTar

NextTar ==
    \/ \E ioOk \in BOOLEAN : ExtractEntry(ioOk)
    \/ ExtractDone

\* C6 as stated: whatever the archive's entries, extraction creates or
\* writes no filesystem object outside the destination root, and an entry
\* whose cleaned path begins with ".." makes extraction fail with an error
\* and is not written.
C6_ExtractionStaysInDestination ==
    /\ \A path \in touched : IsUnder(Destination, path)
    /\ \A i \in 1..Len(tarIn) :
          HasDotDotPrefix(Clean(tarIn[i].name)) => tar.pos <= i
    /\ tar.rejected => tar.done /\ tar.err # "" /\ tar.extracted = <<>>


(***************************************************************************)
(* Part 5: handlePull, buildExportOptions and Client.ExportArtifact        *)
(***************************************************************************)

\* destination paths, character by character
DestOut == <<".", "/", "o", "u", "t">>
DestPorterExe == <<".", "/", "p", "o", "r", "t", "e", "r", ".", "e", "x", "e">>
DestOutSlash == <<".", "/", "o", "u", "t", ".", "d", "/">>
DestVerDir == <<".", "/", "v", "1", ".", "2", "/", "o", "u", "t">>
DestDistBin == <<"d", "i", "s", "t", "/", "a", "p", "p", ".", "b", "i", "n">>
Destinations == {DestOut, DestPorterExe, DestOutSlash, DestVerDir, DestDistBin}

\* filepath.Ext: the suffix from the last dot of the last element
RECURSIVE ExtFrom(_, _)
ExtFrom(path, i) ==
    IF i < 1 \/ path[i] = "/" THEN <<>>
    ELSE IF path[i] = "." THEN SubSeq(path, i, Len(path))
    ELSE ExtFrom(path, i - 1)

Ext(path) == ExtFrom(path, Len(path))

\* strings.HasSuffix(path, string(os.PathSeparator))
HasSeparatorSuffix(path) == Len(path) > 0 /\ path[Len(path)] = "/"

\* destinationLooksLikeFile
DestinationLooksLikeFile(path) ==
    IF HasSeparatorSuffix(path) THEN FALSE ELSE Ext(path) # <<>>

\* the position of the last separator, 0 when there is none
RECURSIVE LastSeparator(_, _)
LastSeparator(path, i) ==
    IF i < 1 THEN 0 ELSE IF path[i] = "/" THEN i ELSE LastSeparator(path, i - 1)

\* filepath.Clean on paths without "..", doubled separators or inner "."
\* elements: a leading "./" and trailing separators go, "" becomes "."
RECURSIVE CleanChars(_)
CleanChars(path) ==
    IF Len(path) >= 2 /\ path[1] = "." /\ path[2] = "/"
    THEN CleanChars(SubSeq(path, 3, Len(path)))
    ELSE IF Len(path) > 1 /\ path[Len(path)] = "/"
    THEN CleanChars(SubSeq(path, 1, Len(path) - 1))
    ELSE IF path = <<>> THEN <<".">> ELSE path

\* filepath.Dir
Dir(path) == CleanChars(SubSeq(path, 1, LastSeparator(path, Len(path))))

\* a path below a base path: filepath.Join(base, elements...); the path
\* itself, as given, when there are no elements
PathAt(base, rel) == [base |-> base, rel |-> rel]

\* a layer of a manifest: title annotation, media type, content
Layer(title, bytes) ==
    [title |-> title, mediaType |-> "application/octet-stream", bytes |-> bytes,
     entries |-> <<>>]

\* a layer whose content is a gzip-compressed tar archive of the entries
ArchiveLayer(entries) ==
    [title |-> "", mediaType |-> "application/vnd.oci.image.layer.v1.tar+gzip",
     bytes |-> "", entries |-> entries]

\* strings.Contains(layer.MediaType, "tar+gzip")
IsArchive(layer) == layer.mediaType = "application/vnd.oci.image.layer.v1.tar+gzip"

\* archives: a file; a link to the parent directory and a file through it;
\* a name that leaves the destination
ArchivePlainFile == <<[name |-> Name(FALSE, <<"a">>), type |-> "reg", link |-> NoLink]>>
ArchiveLinkThenFile ==
    <<[name |-> Name(FALSE, <<"l">>), type |-> "symlink", link |-> Name(FALSE, <<"..">>)],
      [name |-> Name(FALSE, <<"l", "x">>), type |-> "reg", link |-> NoLink]>>
ArchiveDotDot ==
    <<[name |-> Name(FALSE, <<"a">>), type |-> "reg", link |-> NoLink],
      [name |-> Name(FALSE, <<"..", "..", "etc", "passwd">>), type |-> "reg",
       link |-> NoLink]>>

\* the artifacts in the cache: the root descriptor and each manifest's layers
ArtMulti ==
    [root |-> [isIndex |-> TRUE, platform |-> NilPlatform,
               manifests |-> IndexManifests(<<Plat("linux", "amd64", ""),
                   Plat("linux", "arm64", "v8"), Plat("windows", "amd64", "")>>)],
     layers |-> <<<<Layer("", "la")>>, <<Layer("", "lb")>>, <<Layer("", "wa")>>>>]
ArtPlain ==
    [root |-> [isIndex |-> FALSE, platform |-> NilPlatform, manifests |-> <<>>],
     layers |-> <<<<Layer("", "pl")>>>>]
ArtNoPlatform ==
    [root |-> [isIndex |-> TRUE, platform |-> NilPlatform,
               manifests |-> IndexManifests(<<NilPlatform>>)],
     layers |-> <<<<Layer("bin/tool", "np")>>>>]
ArtTwoLayers ==
    [root |-> [isIndex |-> TRUE, platform |-> NilPlatform,
               manifests |-> IndexManifests(<<Plat("linux", "amd64", "")>>)],
     layers |-> <<<<Layer("", "l1"), Layer("notes", "l2")>>>>]
ArtNoLayers ==
    [root |-> [isIndex |-> FALSE, platform |-> Plat("linux", "amd64", ""), manifests |-> <<>>],
     layers |-> <<<<>>>>]
ArtArchives ==
    [root |-> [isIndex |-> TRUE, platform |-> NilPlatform,
               manifests |-> IndexManifests(<<Plat("linux", "amd64", ""),
                   Plat("linux", "arm64", "v8"), NilPlatform>>)],
     layers |-> <<<<ArchiveLayer(ArchiveLinkThenFile)>>, <<ArchiveLayer(ArchivePlainFile)>>,
                  <<Layer("", "na"), ArchiveLayer(ArchiveDotDot)>>>>]
Artifacts == {ArtMulti, ArtPlain, ArtNoPlatform, ArtTwoLayers, ArtNoLayers, ArtArchives}

\* manifest.Layers of a selected manifest (the root manifest has digest 0)
LayersOf(artifact, m) == artifact.layers[IF m.digest = 0 THEN 1 ELSE m.digest]

\* deriveArtifactBaseName(result.Reference) for the pulled reference
BaseName == "porter"

\* sanitizeFilename
SanitizeFilename(name) ==
    CASE name = "bin/tool" -> "bin-tool"
      [] name = "" -> "artifact"
      [] OTHER -> name

\* defaultExtension for a layer that is no archive
DefaultExtension(platform) ==
    IF ~platform.nil /\ EqualFold(platform.os, "windows") THEN ".exe" ELSE ""

\* determineLayerFilename: the name and the extension appended to it
DetermineLayerFilename(layer, platform) ==
    IF layer.title # ""
    THEN [name |-> SanitizeFilename(layer.title), ext |-> ""]
    ELSE [name |-> SanitizeFilename(BaseName), ext |-> DefaultExtension(platform)]

\* runtime.GOOS, runtime.GOARCH
RuntimePlatform == Plat("linux", "amd64", "")

\* a --platform value, as the parts strings.Split(trimmed, "/") yields
SelectionChoices ==
    {<<"windows", "amd64">>, <<"Linux", "ARM64", "V8">>, <<"linux">>, <<"linux", "amd64">>}

\* parsePlatformSelection
ParsePlatformSelection(parts) ==
    Plat(ToLower(parts[1]), ToLower(parts[2]),
         IF Len(parts) > 2 THEN ToLower(parts[3]) ELSE "")

ExportOpts(all, platforms, subdirs) ==
    [allPlatforms |-> all, platforms |-> platforms, usePlatformSubdirs |-> subdirs]

\* buildExportOptions
BuildExportOptions(allPlatforms, selections) ==
    IF allPlatforms THEN [ok |-> TRUE, opts |-> ExportOpts(TRUE, <<>>, TRUE)]
    ELSE IF Len(selections) = 0
    THEN [ok |-> TRUE, opts |-> ExportOpts(FALSE, <<RuntimePlatform>>, FALSE)]
    ELSE IF \E i \in 1..Len(selections) : Len(selections[i]) < 2
    THEN [ok |-> FALSE, opts |-> ExportOpts(FALSE, <<>>, FALSE)]
    ELSE [ok |-> TRUE,
          opts |-> ExportOpts(FALSE,
                      [i \in 1..Len(selections) |-> ParsePlatformSelection(selections[i])],
                      TRUE)]

\* the outcome of an export: whether PullArtifact was called, the error, the returned paths, the directories
\* made, the files written from file layers (with the manifest each was
\* written for), and the filesystem below the destination directory with
\* the objects each manifest's archive layers created in it
NoExport ==
    [done |-> FALSE, err |-> "", mode |-> "", exported |-> <<>>, made |-> {},
     files |-> EmptyMap, selected |-> 0, usePlatformSubdirs |-> FALSE,
     produced |-> {}, afs |-> Fs0, unpacked |-> {}, fileOf |-> -1, pulled |-> FALSE]

ErrMustBeDir == "destination must be a directory when exporting multiple platforms"
ErrStat == "failed to stat destination"
ErrNoPlatform == "no matching platform found for export"
ErrSingleLayer == "expected a single layer"
ErrIo == "i/o error"
ErrConflict == "--all-arch cannot be combined with --platform"
ErrSelection == "invalid platform"

ExportErr(err) == [NoExport EXCEPT !.done = TRUE, !.err = err]

\* variant: the per-platform directory without the architecture level
TargetDirOsOnly(destination, needsSubdirs, platform) ==
    IF needsSubdirs
    THEN IF ~platform.nil /\ platform.os # "" /\ platform.arch # ""
         THEN PathAt(destination, <<platform.os>>)
         ELSE PathAt(destination, <<"unknown">>)
    ELSE PathAt(destination, <<>>)

\* the directory one manifest is exported to
TargetDir(destination, needsSubdirs, platform) ==
    IF needsSubdirs
    THEN IF ~platform.nil /\ platform.os # "" /\ platform.arch # ""
         THEN PathAt(destination,
                     IF platform.variant # ""
                     THEN <<platform.os, platform.arch, platform.variant>>
                     ELSE <<platform.os, platform.arch>>)
         ELSE PathAt(destination, <<"unknown">>)
    ELSE PathAt(destination, <<>>)

\* the destination directory and a directory below it, on the filesystem
\* the archives are extracted to
OnDisk(dir) == Destination \o dir.rel

\* one round of the loop of exportManifestLayers: a tar+gzip layer is
\* extracted into destDir, any other layer is written to a file below
\* destDir; after an error nothing is returned
ExportLayer(layer, destDir, platform, out) ==
    IF out.err # "" THEN out
    ELSE IF IsArchive(layer)
    THEN CHOOSE r \in
             {IF x.err # ""
              THEN [out EXCEPT !.afs = x.fs, !.err = x.err, !.exported = <<>>,
                        !.unpacked = @ \cup {[platform |-> platform, dir |-> OnDisk(destDir),
                                              path |-> q] : q \in x.made}]
              ELSE [out EXCEPT !.afs = x.fs,
                        !.unpacked = @ \cup {[platform |-> platform, dir |-> OnDisk(destDir),
                                              path |-> q] : q \in x.made},
                        !.exported = @ \o [k \in 1..Len(x.extracted) |->
                                              PathAt(<<>>, x.extracted[k])]] :
              x \in {ExtractTarGz(layer.entries, OnDisk(destDir),
                         [fs |-> out.afs, made |-> {}, err |-> "", extracted |-> <<>>])}} : TRUE
    ELSE LET destPath == PathAt(destDir.base,
                 Append(destDir.rel, DetermineLayerFilename(layer, platform)))
         IN [out EXCEPT !.files = (destPath :> layer.bytes) @@ out.files,
                        !.produced = @ \cup {[platform |-> platform, dir |-> destDir,
                                              path |-> destPath]},
                        !.exported = Append(out.exported, destPath)]

\* exportManifestLayers: the loop over manifest.Layers
RECURSIVE ExportManifestLayers(_, _, _, _)
ExportManifestLayers(layers, destDir, platform, out) ==
    IF layers = <<>> THEN out
    ELSE CHOOSE r \in {ExportManifestLayers(Tail(layers), destDir, platform, o) :
                          o \in {ExportLayer(Head(layers), destDir, platform, out)}} : TRUE

\* one round of the loop of ExportArtifact over the selected manifests
ExportManifest(artifact, entry, destination, needsSubdirs, out) ==
    IF out.err # "" THEN out
    ELSE LET targetDir == TargetDir(destination, needsSubdirs, entry.platform)
         IN CHOOSE r \in
                {IF ~m.ok THEN [out EXCEPT !.err = ErrIo, !.exported = <<>>, !.afs = m.fs]
                 ELSE ExportManifestLayers(LayersOf(artifact, entry), targetDir,
                          entry.platform,
                          [out EXCEPT !.made = @ \cup {targetDir}, !.afs = m.fs]) :
                 m \in {MkdirAll(out.afs, OnDisk(targetDir))}} : TRUE

\* the loop of ExportArtifact over the selected manifests
RECURSIVE ExportToDirectory(_, _, _, _, _)
ExportToDirectory(artifact, manifests, destination, needsSubdirs, out) ==
    IF manifests = <<>> THEN out
    ELSE CHOOSE r \in
             {ExportToDirectory(artifact, Tail(manifests), destination, needsSubdirs, o) :
              o \in {ExportManifest(artifact, Head(manifests), destination,
                                    needsSubdirs, out)}} : TRUE

\* variant: the first layer is written when the manifest has several
ExportManifestToFileFirstLayer(layers, destination, out) ==
    IF Len(layers) = 0 THEN [out EXCEPT !.err = ErrSingleLayer]
    ELSE [out EXCEPT !.made = out.made \cup {PathAt(Dir(destination), <<>>)},
                     !.files = (PathAt(destination, <<>>) :> layers[1].bytes) @@ out.files,
                     !.exported = <<PathAt(destination, <<>>)>>]

\* exportManifestToFile
ExportManifestToFile(layers, destination, out) ==
    IF Len(layers) # 1 THEN [out EXCEPT !.err = ErrSingleLayer]
    ELSE [out EXCEPT !.made = out.made \cup {PathAt(Dir(destination), <<>>)},
                     !.files = (PathAt(destination, <<>>) :> layers[1].bytes) @@ out.files,
                     !.exported = <<PathAt(destination, <<>>)>>]

\* Client.ExportArtifact; destState: what os.Stat(destination) finds;
\* readOk: the index can be read; ioOk: the filesystem accepts the writes
ExportArtifact(artifact, destination, destState, opts, readOk, ioOk) ==
    LET sel == SelectManifests(artifact.root, opts, readOk)
        manifests == sel.selections
        destExists == destState \in {"dir", "file"}
        multiManifest == Len(manifests) > 1
        needsSubdirs == opts.usePlatformSubdirs \/ multiManifest
        looksFile == DestinationLooksLikeFile(destination)
        destIsDir == destState = "dir"
        destIsFile == destExists /\ ~destIsDir
        fileMode == destIsFile \/ (~destExists /\ ~needsSubdirs /\ looksFile)
        made == IF destExists THEN {}
                ELSE IF needsSubdirs \/ ~looksFile THEN {PathAt(destination, <<>>)}
                ELSE IF Dir(destination) # <<".">> THEN {PathAt(Dir(destination), <<>>)}
                ELSE {}
        chosen == [NoExport EXCEPT !.done = TRUE, !.selected = Len(manifests),
                                   !.usePlatformSubdirs = opts.usePlatformSubdirs,
                                   !.mode = IF fileMode THEN "file" ELSE "dir"]
    IN IF sel.err # "" THEN ExportErr(sel.err)
       ELSE IF Len(manifests) = 0 THEN ExportErr(ErrNoPlatform)
       ELSE IF destState = "staterr" THEN ExportErr(ErrStat)
       ELSE IF destIsFile /\ (needsSubdirs \/ multiManifest)
       THEN [ExportErr(ErrMustBeDir) EXCEPT !.selected = Len(manifests),
                                            !.usePlatformSubdirs = opts.usePlatformSubdirs]
       ELSE IF ~ioOk THEN [chosen EXCEPT !.err = ErrIo]
       ELSE IF fileMode
       THEN ExportManifestToFile(LayersOf(artifact, manifests[1]), destination,
                                 [chosen EXCEPT !.made = made,
                                                !.fileOf = manifests[1].digest])
       ELSE ExportToDirectory(artifact, manifests, destination, needsSubdirs,
                              [chosen EXCEPT !.made = made])

DestStates == {"missing", "dir", "file", "staterr"}

NoCall ==
    [via |-> "ExportArtifact", artifact |-> ArtPlain, allArch |-> FALSE,
     selections |-> <<>>, opts |-> ExportOpts(FALSE, <<>>, FALSE),
     destination |-> DestOut, destState |-> "missing"]

\* the pull command with --output, and direct calls of ExportArtifact
InitExp ==
    /\ \E artifact \in Artifacts, destination \in Destinations, st \in DestStates :
          /\ HasSeparatorSuffix(destination) => st # "file"
          /\ \/ \E all \in BOOLEAN, sels \in SeqsUpTo(SelectionChoices, MaxSelections) :
                   expIn = [NoCall EXCEPT !.via = "handlePull", !.artifact = artifact,
                               !.allArch = all, !.selections = sels,
                               !.destination = destination, !.destState = st]
             \/ \E all \in BOOLEAN, subdirs \in BOOLEAN,
                   targets \in SeqsUpTo({Plat("linux", "amd64", ""),
                                         Plat("windows", "amd64", "")}, 1) :
                   expIn = [NoCall EXCEPT !.artifact = artifact,
                               !.opts = ExportOpts(all, targets, subdirs),
                               !.destination = destination, !.destState = st]
    /\ expOut = NoExport

ExportParked == expIn = NoCall /\ expOut = NoExport

\* handlePull with --output: the flag check, then PullArtifact (which is
\* taken to return the artifact), then buildExportOptions, ExportArtifact
HandlePull(readOk, ioOk) ==
    /\ ~expOut.done
    /\ expIn.via = "handlePull"
    /\ LET built == BuildExportOptions(expIn.allArch, expIn.selections)
       IN expOut' =
             IF expIn.allArch /\ Len(expIn.selections) > 0 THEN ExportErr(ErrConflict)
             ELSE IF ~built.ok THEN [ExportErr(ErrSelection) EXCEPT !.pulled = TRUE]
             ELSE [ExportArtifact(expIn.artifact, expIn.destination, expIn.destState,
                                  built.opts, readOk, ioOk) EXCEPT !.pulled = TRUE]
    /\ UNCHANGED expIn
    /\ UNCHANGED offExport

\* Client.ExportArtifact called with the caller's options
ExportDirect(readOk, ioOk) ==
    /\ ~expOut.done
    /\ expIn.via = "ExportArtifact"
    /\ expOut' = ExportArtifact(expIn.artifact, expIn.destination, expIn.destState,
                                expIn.opts, readOk, ioOk)
    /\ UNCHANGED expIn
    /\ UNCHANGED offExport

NextExport ==
    \/ \E readOk \in BOOLEAN, ioOk \in BOOLEAN : HandlePull(readOk, ioOk)
    \/ \E readOk \in BOOLEAN, ioOk \in BOOLEAN : ExportDirect(readOk, ioOk)


\* the export came to choosing its output mode: manifests were selected
\* and the destination could be examined
ModeChosen == expOut.done /\ expOut.selected > 0

\* subdirectories are required
SubdirsRequired == expOut.usePlatformSubdirs \/ expOut.selected > 1

\* the destinations with a file extension and no trailing separator
FileLike == {DestPorterExe, DestDistBin}

\* C9 as stated: an existing directory gives directory mode; an existing
\* file gives file mode, legal whenever exactly one manifest is selected;
\* a missing destination gives directory mode when subdirectories are
\* required, else file mode when the path has a file extension and no
\* trailing separator, else directory mode.
C9_ModeFromDestination ==
    ModeChosen =>
        /\ expIn.destState = "dir" => expOut.mode = "dir"
        /\ (expIn.destState = "file" /\ expOut.selected = 1) =>
              expOut.mode = "file" /\ expOut.err # ErrMustBeDir
        /\ expIn.destState = "missing" =>
              expOut.mode = IF SubdirsRequired THEN "dir"
                            ELSE IF expIn.destination \in FileLike THEN "file"
                            ELSE "dir"

\* the --output path points to a file: it is one, or it is missing and has
\* a file extension and no trailing separator
PointsToFile ==
    \/ expIn.destState = "file"
    \/ expIn.destState = "missing" /\ expIn.destination \in FileLike

\* a pull of the multi-platform artifact with one --platform flag naming
\* a platform of its index, finished without a read or write failure
OnePlatformPulled ==
    /\ expOut.done
    /\ expIn.via = "handlePull" /\ ~expIn.allArch
    /\ expIn.artifact = ArtMulti
    /\ Len(expIn.selections) = 1
    /\ expIn.selections[1] \in {<<"windows", "amd64">>, <<"linux", "amd64">>,
                                <<"Linux", "ARM64", "V8">>}
    /\ expOut.err \notin {ErrIo, ErrReadIndex}

\* C10 as stated: a pull with exactly one --platform selection and an
\* --output path that points to a file writes the platform's binary to
\* that path, and the exported files are exactly that path.
C10_OnePlatformToFile ==
    (OnePlatformPulled /\ PointsToFile) =>
        /\ expOut.err = ""
        /\ expOut.exported = <<PathAt(expIn.destination, <<>>)>>
        /\ DOMAIN expOut.files = {PathAt(expIn.destination, <<>>)}

\* the export ran in directory mode with several manifests selected
SeveralToDirectory == expOut.done /\ expOut.mode = "dir" /\ expOut.selected > 1

\* <os>/<arch>, and /<variant> when there is one; unknown without platform
PlatformDir(platform) ==
    IF platform.nil THEN <<"unknown">>
    ELSE IF platform.variant # "" THEN <<platform.os, platform.arch, platform.variant>>
    ELSE <<platform.os, platform.arch>>

\* C11 as stated: in directory mode with several platforms exported, every
\* file produced for a manifest with platform (os, arch, variant) lies under
\* <destination>/<os>/<arch>[/<variant>], and every file produced for a
\* manifest without platform metadata lies under <destination>/unknown.
C11_FilesUnderPlatformDir ==
    SeveralToDirectory =>
        /\ \A p \in expOut.produced :
              /\ p.path.base = expIn.destination
              /\ Parent(p.path.rel) = PlatformDir(p.platform)
        /\ \A u \in expOut.unpacked :
              KindAt(expOut.afs, u.path) = "file" =>
                  IsUnder(Destination \o PlatformDir(u.platform), u.path)

\* the export ran in file mode and the filesystem accepted its writes
FileModeRan == expOut.done /\ expOut.mode = "file" /\ expOut.err # ErrIo

\* the layers of the manifest that file mode was given
FileModeLayers == LayersOf(expIn.artifact, [digest |-> expOut.fileOf])

\* C12: in file mode the export succeeds exactly when the selected manifest
\* has one layer; then the destination file holds that layer's bytes and
\* the returned list is the destination path alone; with no layer or
\* several layers it returns an error and writes no file.
C12_FileModeSingleLayer ==
    FileModeRan =>
        LET dest == PathAt(expIn.destination, <<>>)
        IN /\ expOut.selected = 1
           /\ expOut.err = "" <=> Len(FileModeLayers) = 1
           /\ expOut.err = "" =>
                 /\ expOut.files = (dest :> FileModeLayers[1].bytes)
                 /\ expOut.exported = <<dest>>
           /\ Len(FileModeLayers) # 1 =>
                 /\ expOut.err = ErrSingleLayer
                 /\ expOut.files = EmptyMap
                 /\ expOut.exported = <<>>

\* file mode was given a manifest with two layers and a destination that
\* did not exist
C12_Witness ==
    /\ FileModeRan
    /\ Len(FileModeLayers) = 2
    /\ expIn.destState = "missing"
    /\ expOut.err = ErrSingleLayer

(***************************************************************************)
(* Part 6: registry credentials (Client.resolveCredentials, the lookup of  *)
(* PullArtifact, release.NewPusher)                                        *)
(***************************************************************************)

\* a registry string is the sequence of its pieces: scheme prefixes, host
\* names, separators, blanks
RegExample == <<"reg.example">>
OtherExample == <<"other.example">>

\* strings.TrimSpace
RECURSIVE TrimSpace(_)
TrimSpace(value) ==
    IF value # <<>> /\ value[1] = " " THEN TrimSpace(Tail(value))
    ELSE IF value # <<>> /\ value[Len(value)] = " "
    THEN TrimSpace(SubSeq(value, 1, Len(value) - 1))
    ELSE value

\* strings.TrimPrefix, strings.TrimSuffix for a prefix or suffix of one piece
TrimPrefix(value, prefix) ==
    IF value # <<>> /\ value[1] = prefix THEN Tail(value) ELSE value
TrimSuffix(value, suffix) ==
    IF value # <<>> /\ value[Len(value)] = suffix
    THEN SubSeq(value, 1, Len(value) - 1) ELSE value

\* normalizeRegistry
NormalizeRegistry(value) ==
    LET trimmed == TrimSpace(value)
    IN IF trimmed = <<>> THEN <<>>
       ELSE TrimSuffix(TrimPrefix(TrimPrefix(trimmed, "https://"), "http://"), "/")

\* defaultUsername
DefaultUsername == "token"

\* auth.Credential; the empty credential is the anonymous one
Credential(username, password) == [username |-> username, password |-> password]
NoCredential == Credential("", "")

\* RegistryConfig
RegistryConfig(name, url, secret) ==
    [name |-> name, url |-> url, username |-> secret.username,
     password |-> secret.password, token |-> secret.token]

Secret(username, password, token) ==
    [username |-> username, password |-> password, token |-> token]

RegistryNames == {<<"main">>, RegExample}
RegistryUrls == {RegExample, <<"https://", "reg.example", "/">>, OtherExample}
Secrets ==
    {Secret("", "", ""), Secret("alice", "pw", ""), Secret("", "", "tok"),
     Secret("alice", "", "tok"), Secret("", "pw", "tok")}
RegistryChoices ==
    {RegistryConfig(n, u, c) : n \in RegistryNames, u \in RegistryUrls, c \in Secrets}

\* the registry of a parsed reference (Context().RegistryStr()): a bare host
ReferenceRegistries == {RegExample, OtherExample}

\* the registries callers of ResolveCredentials ask for
AskedRegistries ==
    ReferenceRegistries \cup
        {<<>>, <<"http://", "reg.example">>, <<" ", "reg.example", "/", " ">>,
         <<"main">>, <<"reg.example", "/", "/">>}

\* variant: resolveCredentials comparing the strings as they are written
RECURSIVE ResolveCredentialsExact(_, _)
ResolveCredentialsExact(registries, registry) ==
    IF registries = <<>> THEN NoCredential
    ELSE LET reg == Head(registries)
         IN IF registry # <<>> /\ registry # reg.url /\ registry # reg.name
            THEN ResolveCredentialsExact(Tail(registries), registry)
            ELSE LET password == IF reg.password = "" /\ reg.token # ""
                                 THEN reg.token ELSE reg.password
                     username == IF reg.username = "" /\ password # ""
                                 THEN DefaultUsername ELSE reg.username
                 IN Credential(username, password)

\* resolveCredentials: the first entry whose normalized URL or name is the
\* normalized registry; an empty registry takes the first entry
RECURSIVE ResolveCredentials(_, _)
ResolveCredentials(registries, registry) ==
    IF registries = <<>> THEN NoCredential
    ELSE LET normalized == NormalizeRegistry(registry)
             reg == Head(registries)
         IN IF /\ normalized # <<>>
               /\ normalized # NormalizeRegistry(reg.url)
               /\ normalized # NormalizeRegistry(reg.name)
            THEN ResolveCredentials(Tail(registries), registry)
            ELSE LET password == IF reg.password = "" /\ reg.token # ""
                                 THEN reg.token ELSE reg.password
                     username == IF reg.username = "" /\ password # ""
                                 THEN DefaultUsername ELSE reg.username
                 IN Credential(username, password)

\* the lookup of PullArtifact: every entry whose URL or name is the
\* registry, as written, and that has a username and a password sets the
\* credential; the loop does not stop at a match
RECURSIVE PullCredential(_, _, _)
PullCredential(registries, regName, credential) ==
    IF registries = <<>> THEN credential
    ELSE LET r == Head(registries)
         IN PullCredential(Tail(registries), regName,
                IF (r.url = regName \/ r.name = regName)
                   /\ r.username # "" /\ r.password # ""
                THEN Credential(r.username, r.password)
                ELSE credential)

\* release.NewPusher: the credential of the publisher's transport
PusherCredential(resolved) ==
    IF resolved.username # "" /\ resolved.password # "" THEN resolved ELSE NoCredential

NoLookup ==
    [resolveRan |-> FALSE, resolved |-> NoCredential,
     pullRan |-> FALSE, pull |-> NoCredential,
     pushRan |-> FALSE, push |-> NoCredential]

InitCred ==
    /\ \E registries \in SeqsUpTo(RegistryChoices, MaxRegistries),
          registry \in AskedRegistries :
          credIn = [registries |-> registries, registry |-> registry]
    /\ credOut = NoLookup

CredParked == credIn = [registries |-> <<>>, registry |-> <<>>] /\ credOut = NoLookup

\* Client.ResolveCredentials(registry)
Resolve ==
    /\ ~credOut.resolveRan
    /\ credOut' = [credOut EXCEPT !.resolveRan = TRUE,
                      !.resolved = ResolveCredentials(credIn.registries, credIn.registry)]
    /\ UNCHANGED credIn
    /\ UNCHANGED offCred

\* PullArtifact, up to repo.Client = client, for a reference on the registry
PullTransport ==
    /\ credOut.resolveRan /\ ~credOut.pullRan
    /\ credIn.registry \in ReferenceRegistries
    /\ credOut' = [credOut EXCEPT !.pullRan = TRUE,
                      !.pull = PullCredential(credIn.registries, credIn.registry,
                                              NoCredential)]
    /\ UNCHANGED credIn
    /\ UNCHANGED offCred

\* PushArtifact, from resolveCredentials to release.NewPusher, for a
\* reference on the registry
PushTransport ==
    /\ credOut.pullRan /\ ~credOut.pushRan
    /\ credIn.registry \in ReferenceRegistries
    /\ credOut' = [credOut EXCEPT !.pushRan = TRUE,
                      !.push = PusherCredential(
                                   ResolveCredentials(credIn.registries, credIn.registry))]
    /\ UNCHANGED credIn
    /\ UNCHANGED offCred

NextCred == Resolve \/ PullTransport \/ PushTransport

\* the positions of the configured entries whose normalized name or URL is
\* the normalized registry asked for
NameMatches ==
    {i \in 1..Len(credIn.registries) :
        NormalizeRegistry(credIn.registry) \in
            {NormalizeRegistry(credIn.registries[i].name),
             NormalizeRegistry(credIn.registries[i].url)}}

\* the secret an entry stands for: its password, else its token; the
\* placeholder username when the entry names none
PasswordOf(reg) == IF reg.password # "" THEN reg.password ELSE reg.token
UsernameOf(reg) ==
    IF reg.username = "" /\ PasswordOf(reg) # "" THEN DefaultUsername ELSE reg.username

First(positions) == CHOOSE i \in positions : \A j \in positions : i <= j

\* C17 as stated: the first entry whose normalized name or URL equals the
\* normalized host gives its password, else its token, as the password,
\* with the placeholder username when only a token is configured; the
\* result is empty exactly when no entry matches.
C17_ResolveFirstMatch ==
    credOut.resolveRan =>
        /\ NameMatches # {} =>
              LET reg == credIn.registries[First(NameMatches)]
              IN /\ credOut.resolved.password = PasswordOf(reg)
                 /\ (reg.username = "" /\ reg.password = "" /\ reg.token # "") =>
                        credOut.resolved.username = DefaultUsername
        /\ credOut.resolved = NoCredential <=> NameMatches = {}

\* the entries resolveCredentials takes as matching: every entry when the
\* normalized registry is empty
Matches ==
    IF NormalizeRegistry(credIn.registry) = <<>> THEN 1..Len(credIn.registries)
    ELSE NameMatches

\* C17 amended: the first matching entry (every entry matches an empty
\* host) gives its password, else its token, as the password, and its
\* username, or the placeholder username when it names none and has a
\* password or token; the result is empty when no entry matches, and also
\* when the first matching entry has no username, password or token.
C17_ResolveFirstMatchOrEmpty ==
    credOut.resolveRan =>
        /\ Matches # {} =>
              LET reg == credIn.registries[First(Matches)]
              IN credOut.resolved = Credential(UsernameOf(reg), PasswordOf(reg))
        /\ Matches = {} => credOut.resolved = NoCredential
        /\ credOut.resolved = NoCredential <=>
              \/ Matches = {}
              \/ LET reg == credIn.registries[First(Matches)]
                 IN reg.username = "" /\ reg.password = "" /\ reg.token = ""

\* a registry written with a scheme was resolved to the token of the second
\* entry, whose URL carries a scheme and a trailing slash
C17_Witness ==
    /\ credOut.resolveRan
    /\ credIn.registry = <<"http://", "reg.example">>
    /\ Len(credIn.registries) = 2
    /\ NameMatches = {2}
    /\ credIn.registries[2].url = <<"https://", "reg.example", "/">>
    /\ credOut.resolved = Credential(DefaultUsername, "tok")

\* C18 as stated: the credential attached to the transport of a pull is
\* the pair Resolve(host) returns, for every registry list and host.
C18_PullUsesResolver ==
    credOut.pullRan =>
        credOut.pull = ResolveCredentials(credIn.registries, credIn.registry)

(***************************************************************************)
(* Part 7: publish, pull, export in a row                                  *)
(***************************************************************************)

\* the manifest descriptions published then pulled: binaries for three
\* platforms, a second binary for one of them, a directory
PublishedEntries ==
    {[platform |-> <<"linux", "amd64">>, path |-> "bin/amd64", isDir |-> FALSE],
     [platform |-> <<"linux", "arm64", "v8">>, path |-> "bin/arm64", isDir |-> FALSE],
     [platform |-> <<"windows", "amd64">>, path |-> "bin/win.exe", isDir |-> FALSE],
     [platform |-> <<"linux", "amd64">>, path |-> "bin/any", isDir |-> FALSE],
     [platform |-> <<"linux", "arm64">>, path |-> "dist/arm64", isDir |-> TRUE]}

\* the bytes of the file PushBinary reads: the binary at the path, or the
\* archive createArchiveFromDirectory wrote for the directory at the path
FileBytes(path) ==
    CASE path = "bin/amd64" -> "elf-amd64"
      [] path = "bin/arm64" -> "elf-arm64"
      [] path = "bin/win.exe" -> "pe-amd64"
      [] path = "bin/any" -> "elf-any"
      [] path = "dist/arm64" -> "tgz-arm64"
      [] OTHER -> "tgz-amd64"

\* filepath.Base of the file PushBinary reads (for a directory, the name
\* os.CreateTemp gave the archive)
Base(path) ==
    CASE path = "bin/amd64" -> "amd64"
      [] path = "bin/arm64" -> "arm64"
      [] path = "bin/win.exe" -> "win.exe"
      [] path = "bin/any" -> "any"
      [] OTHER -> "ds-porter-archive-1.tar.gz"

\* FileStore.AddFile in PushBinary: the one layer of a platform manifest
PublishedLayer(manifest) == Layer(Base(manifest.path), FileBytes(manifest.path))

\* the orders in which the loop of PushIndex over its map can list a set
Orders(S) ==
    {o \in [1..Cardinality(S) -> S] : \A i, j \in 1..Cardinality(S) : o[i] = o[j] => i = j}

\* the artifact in the cache after a pull of a published index, its
\* manifests in the order given: oras.Copy stores the index, the platform
\* manifests and their layers as the registry holds them
PulledArtifact(order) ==
    [root |-> [isIndex |-> TRUE, platform |-> NilPlatform,
               manifests |-> IndexManifests(
                   [i \in 1..Len(order) |->
                       Plat(order[i].platform.os, order[i].platform.arch,
                            order[i].platform.variant)])],
     layers |-> [i \in 1..Len(order) |-> <<PublishedLayer(order[i].digest)>>]]

\* PushArtifact or Pusher.Push for a description, then `pull --all-arch -o
\* <directory>` of the published reference
InitRoundTrip ==
    /\ \E caller \in {"PushArtifact", "Push"}, ref \in PushRefs,
          es \in SeqsUpTo(PublishedEntries, MaxEntries) :
          pushIn = [caller |-> caller, ref |-> ref, path |-> "release.yaml",
                    entries |-> es, tagLatest |-> TRUE]
    /\ push = IdlePush
    /\ regManifests = {}
    /\ regTags = TagsBefore("none")
    /\ tags0 = regTags
    /\ tempArchives = {}
    /\ ExportParked

\* what the published reference resolves to in the registry
PublishedIndex ==
    regTags[<<SplitReference(pushIn.ref).repo, SplitReference(pushIn.ref).tag>>]

\* handlePull after a publish that succeeded: PullArtifact copies the
\* published index into the cache, ExportArtifact then exports it
PullPublished(readOk, ioOk) ==
    /\ push.pc = "done" /\ push.err = ""
    /\ PublishedIndex.kind = "index"
    /\ ~expOut.done
    /\ \E order \in Orders(PublishedIndex.manifests), st \in {"missing", "dir"} :
          /\ expIn' = [NoCall EXCEPT !.via = "handlePull",
                           !.artifact = PulledArtifact(order), !.allArch = TRUE,
                           !.destination = DestOut, !.destState = st]
          /\ expOut' = [ExportArtifact(PulledArtifact(order), DestOut, st,
                            BuildExportOptions(TRUE, <<>>).opts, readOk, ioOk)
                            EXCEPT !.pulled = TRUE]
    /\ UNCHANGED pushVars
    /\ UNCHANGED <<pullVars, selVars, tarVars, credVars, storeVars, metaVars>>

NextRoundTrip ==
    \/ NextPush
    \/ \E readOk \in BOOLEAN, ioOk \in BOOLEAN : PullPublished(readOk, ioOk)

\* the published description maps each of its platforms to a file
MapsPlatformsToBinaries ==
    \A pf \in DOMAIN push.entries :
        ~push.entries[pf].isDir /\ pf.os # "" /\ pf.arch # ""

\* the files exported below <destination>/<os>/<arch>
ExportedBelow(pf) ==
    {f \in DOMAIN expOut.files :
        /\ f.base = expIn.destination
        /\ Len(f.rel) > 2 /\ f.rel[1] = pf.os /\ f.rel[2] = pf.arch
        /\ pf.variant # "" => f.rel[3] = pf.variant}

\* C19: a description that maps each platform to a binary, published,
\* pulled with all platforms selected and exported to a directory, leaves
\* under each platform's <os>/<arch> subdirectory a file whose content is
\* the binary published for that platform.
C19_RoundTripKeepsBinaries ==
    (expOut.done /\ expOut.err = "" /\ MapsPlatformsToBinaries) =>
        \A pf \in DOMAIN push.entries :
            \E f \in ExportedBelow(pf) :
                expOut.files[f] = FileBytes(push.entries[pf].path)

\* three platforms were published, pulled and exported, two descriptions
\* having named the same platform
C19_Witness ==
    /\ expOut.done /\ expOut.err = "" /\ MapsPlatformsToBinaries
    /\ Cardinality(DOMAIN push.entries) = 2
    /\ Len(pushIn.entries) = 3
    /\ Cardinality(DOMAIN expOut.files) = 2
    /\ \E pf \in DOMAIN push.entries : pf.variant # ""

(***************************************************************************)
(* Part 8: the installation store                                          *)
(***************************************************************************)

\* what the installation store leaves alone
offStore == <<pullVars, selVars, pushVars, tarVars, expVars, credVars, metaVars>>

\* storePath, which NewInstallationStore creates
StorePath == <<"store">>

\* namespaces and names, as the components between their separators:
\* "dev", "dev/team" and "app", "svc", "team/app"; "prod" is never written
Namespaces == {<<"dev">>, <<"dev", "team">>}
ListedNamespaces == Namespaces \cup {<<"prod">>}
InstNames == {<<"app">>, <<"svc">>, <<"team", "app">>}
Bundles == {"bundle:v1", "bundle:v2"}

Installation(namespace, name, bundle) ==
    [namespace |-> namespace, name |-> name, bundle |-> bundle]

Installations ==
    {Installation(ns, n, b) : ns \in Namespaces, n \in InstNames, b \in Bundles}

InstKey(namespace, name) == [namespace |-> namespace, name |-> name]

InstKeys == {InstKey(ns, n) : ns \in Namespaces, n \in InstNames}

\* getFilePath: filepath.Join(storePath, namespace, name + ".json"), as the
\* directory of the file and its base name without the extension
GetFilePath(namespace, name) ==
    LET parts == CleanParts(StorePath \o namespace \o name, <<>>, TRUE)
    IN [dir |-> Parent(parts), base |-> parts[Len(parts)]]

\* what a file holds: the JSON of an installation, or bytes that do not
\* parse as one
Written(inst) == [parses |-> TRUE, inst |-> inst]
Truncated == [parses |-> FALSE, inst |-> Installation(<<>>, <<>>, "")]

\* os.MkdirAll(dir): the directory and its parents
DirsOf(dir) == {SubSeq(dir, 1, n) : n \in 1..Len(dir)}

\* what Get and List return
NoInstallation == Installation(<<>>, <<>>, "")
Found(inst) == [err |-> "", inst |-> inst]
NotFound == [err |-> "installation not found", inst |-> NoInstallation]
Unparsable == [err |-> "failed to unmarshal installation", inst |-> NoInstallation]

\* Get
Get(files, namespace, name) ==
    LET filePath == GetFilePath(namespace, name)
    IN IF filePath \notin DOMAIN files THEN NotFound
       ELSE IF ~files[filePath].parses THEN Unparsable
       ELSE Found(files[filePath].inst)

\* List: the installations of the files of the namespace directory that
\* parse; a directory that does not exist gives the empty list and no error
List(files, dirs, namespace) ==
    LET namespacePath == CleanParts(StorePath \o namespace, <<>>, TRUE)
    IN IF namespacePath \notin dirs THEN {}
       ELSE {files[f].inst : f \in {g \in DOMAIN files :
                                g.dir = namespacePath /\ files[g].parses}}

NoCallYet == [op |-> "", key |-> InstKey(<<>>, <<>>), err |-> "", changed |-> FALSE,
              wasSaved |-> FALSE]

InitStore ==
    /\ instFiles = [f \in {} |-> Truncated]
    /\ instDirs = {StorePath}
    /\ instSaved = [k \in {} |-> NoInstallation]
    /\ instLast = NoCallYet

StoreParked == InitStore

\* Save: creates the namespace directory and writes the file; when the
\* directory cannot be created it returns the error and writes nothing
Save(installation, mkdirOk) ==
    LET key == InstKey(installation.namespace, installation.name)
        filePath == GetFilePath(installation.namespace, installation.name)
        files == IF mkdirOk
                 THEN [f \in DOMAIN instFiles \cup {filePath} |->
                          IF f = filePath THEN Written(installation) ELSE instFiles[f]]
                 ELSE instFiles
    IN /\ instDirs' = IF mkdirOk THEN instDirs \cup DirsOf(filePath.dir) ELSE instDirs
       /\ instFiles' = files
       /\ instSaved' = IF mkdirOk
                       THEN [k \in DOMAIN instSaved \cup {key} |->
                                IF k = key THEN installation ELSE instSaved[k]]
                       ELSE instSaved
       /\ instLast' = [op |-> "Save", key |-> key,
                       err |-> IF mkdirOk THEN ""
                               ELSE "failed to create namespace directory",
                       changed |-> files # instFiles,
                       wasSaved |-> key \in DOMAIN instSaved]
       /\ UNCHANGED offStore

\* Delete: removes the file; a file that does not exist is an error
Delete(namespace, name) ==
    LET key == InstKey(namespace, name)
        filePath == GetFilePath(namespace, name)
        exists == filePath \in DOMAIN instFiles
        files == [f \in DOMAIN instFiles \ {filePath} |-> instFiles[f]]
    IN /\ instFiles' = files
       /\ instSaved' = IF exists
                       THEN [k \in DOMAIN instSaved \ {key} |-> instSaved[k]]
                       ELSE instSaved
       /\ instLast' = [op |-> "Delete", key |-> key,
                       err |-> IF exists THEN "" ELSE "installation not found",
                       changed |-> files # instFiles,
                       wasSaved |-> key \in DOMAIN instSaved]
       /\ UNCHANGED instDirs
       /\ UNCHANGED offStore

SaveCall == \E inst \in Installations, mkdirOk \in BOOLEAN : Save(inst, mkdirOk)

DeleteCall == \E key \in InstKeys : Delete(key.namespace, key.name)

NextStore == SaveCall \/ DeleteCall

\* the installations saved and not deleted since, of one namespace
SavedIn(namespace) ==
    {instSaved[k] : k \in {j \in DOMAIN instSaved : j.namespace = namespace}}

\* C21: after any sequence of Save and Delete calls, Get(namespace, name)
\* returns the installation last saved under that key when it was not
\* deleted since and an error otherwise, a Delete of an absent installation
\* returns an error and changes nothing, and List(namespace) returns
\* exactly the installations present in that namespace.
C21_StoreIsKeyedMap ==
    /\ \A k \in InstKeys :
          IF k \in DOMAIN instSaved
          THEN Get(instFiles, k.namespace, k.name) = Found(instSaved[k])
          ELSE Get(instFiles, k.namespace, k.name).err # ""
    /\ (instLast.op = "Delete" /\ ~instLast.wasSaved) =>
          (instLast.err # "" /\ ~instLast.changed)
    /\ \A ns \in ListedNamespaces : List(instFiles, instDirs, ns) = SavedIn(ns)

\* "dev", "team/app" was saved and never "dev/team", "app", yet Get of the
\* latter returns an installation
C21_KeysShareFile ==
    /\ InstKey(<<"dev">>, <<"team", "app">>) \in DOMAIN instSaved
    /\ InstKey(<<"dev", "team">>, <<"app">>) \notin DOMAIN instSaved
    /\ Get(instFiles, <<"dev", "team">>, <<"app">>).err = ""

\* the keys that are one path component each
PlainKeys == {k \in InstKeys : Len(k.namespace) = 1 /\ Len(k.name) = 1}

\* on keys of one path component each the store is the map C21 describes
C21_PlainKeysKeyedMap ==
    /\ \A k \in PlainKeys :
          IF k \in DOMAIN instSaved
          THEN Get(instFiles, k.namespace, k.name) = Found(instSaved[k])
          ELSE Get(instFiles, k.namespace, k.name).err # ""
    /\ (instLast.op = "Delete" /\ ~instLast.wasSaved /\ instLast.key \in PlainKeys) =>
          (instLast.err # "" /\ ~instLast.changed)
    /\ \A ns \in {<<"dev">>, <<"prod">>} :
          List(instFiles, instDirs, ns) = {i \in SavedIn(ns) : Len(i.name) = 1}

(***************************************************************************)
(* Part 9: the delivery metadata of a pull result                          *)
(***************************************************************************)

\* what the metadata lookup leaves alone
offMeta == <<pullVars, selVars, pushVars, tarVars, expVars, credVars, storeVars>>

AnnotationKeys == {"ds.plugin.name", "org.opencontainers.image.title"}
AnnotationValues == {"porter", "other"}

\* map[string]string: the annotations of a descriptor, a manifest, an index
Annotations == UNION {[D -> AnnotationValues] : D \in SUBSET AnnotationKeys}

NoAnnotations == [k \in {} |-> "porter"]

\* a file of the cache directory: missing, not JSON, or JSON with its
\* "annotations" member
FileStates == {"missing", "unparsable", "json"}
CacheFile(state, annotations) == [state |-> state, annotations |-> annotations]
CacheFiles ==
    {CacheFile("missing", NoAnnotations), CacheFile("unparsable", NoAnnotations)}
        \cup {CacheFile("json", a) : a \in Annotations}

\* for k, v := range source { metadata[k] = v }
CopyInto(metadata, source) ==
    [k \in DOMAIN metadata \cup DOMAIN source |->
        IF k \in DOMAIN source THEN source[k] ELSE metadata[k]]

Loaded(annotations) == [err |-> "", annotations |-> annotations]
LoadFailed(err) == [err |-> err, annotations |-> NoAnnotations]

\* loadDescriptorAnnotations(cachePath, desc)
LoadDescriptorAnnotations(blob) ==
    IF blob.state = "missing" THEN LoadFailed("read")
    ELSE IF blob.state = "unparsable" THEN LoadFailed("unmarshal")
    ELSE IF DOMAIN blob.annotations = {}
    THEN LoadFailed("descriptor contains no annotations")
    ELSE Loaded(blob.annotations)

\* loadIndexAnnotations(cachePath)
LoadIndexAnnotations(index) ==
    IF index.state = "missing" THEN LoadFailed("read")
    ELSE IF index.state = "unparsable" THEN LoadFailed("unmarshal")
    ELSE Loaded(index.annotations)

\* variant: every source is copied into the metadata
PullMetadataMerged(descAnnotations, blob, index) ==
    LET fromDesc == CopyInto(NoAnnotations, descAnnotations)
        blobLoad == LoadDescriptorAnnotations(blob)
        fromBlob == IF blobLoad.err # "" THEN fromDesc
                    ELSE CopyInto(fromDesc, blobLoad.annotations)
        indexLoad == LoadIndexAnnotations(index)
    IN IF indexLoad.err # "" THEN fromBlob
       ELSE CopyInto(fromBlob, indexLoad.annotations)

\* PullArtifact, from metadata := make(map[string]string) to the metadata
\* of the result
PullMetadata(descAnnotations, blob, index) ==
    LET fromDesc == CopyInto(NoAnnotations, descAnnotations)
        blobLoad == LoadDescriptorAnnotations(blob)
        fromBlob == IF DOMAIN fromDesc # {} \/ blobLoad.err # "" THEN fromDesc
                    ELSE CopyInto(fromDesc, blobLoad.annotations)
        indexLoad == LoadIndexAnnotations(index)
    IN IF DOMAIN fromBlob # {} \/ indexLoad.err # "" THEN fromBlob
       ELSE CopyInto(fromBlob, indexLoad.annotations)

NoMetadata == [done |-> FALSE, metadata |-> NoAnnotations]

InitMeta ==
    /\ \E a \in Annotations, blob \in CacheFiles, index \in CacheFiles :
          metaIn = [desc |-> a, blob |-> blob, index |-> index]
    /\ metaOut = NoMetadata

MetaParked ==
    /\ metaIn = [desc |-> NoAnnotations, blob |-> CacheFile("missing", NoAnnotations),
                 index |-> CacheFile("missing", NoAnnotations)]
    /\ metaOut = NoMetadata

ReadMetadata ==
    /\ ~metaOut.done
    /\ metaOut' = [done |-> TRUE,
                   metadata |-> PullMetadata(metaIn.desc, metaIn.blob, metaIn.index)]
    /\ UNCHANGED metaIn
    /\ UNCHANGED offMeta

NextMeta == ReadMetadata

\* the annotations a source gives: none when the file cannot be read or
\* parsed
Gives(file) == IF file.state = "json" THEN file.annotations ELSE NoAnnotations

\* C23: the metadata of a pull result is the root descriptor's annotations
\* if there are any, otherwise the annotations of the root blob if there
\* are any, otherwise the top-level annotations of index.json, otherwise
\* empty; the sources are never merged.
C23_OneSourceInOrder ==
    metaOut.done =>
        metaOut.metadata =
            IF DOMAIN metaIn.desc # {} THEN metaIn.desc
            ELSE IF DOMAIN Gives(metaIn.blob) # {} THEN Gives(metaIn.blob)
            ELSE Gives(metaIn.index)

\* the descriptor carries one annotation, and the blob and index.json each
\* another value or key: the result holds the descriptor's alone
C23_Witness ==
    /\ metaOut.done
    /\ DOMAIN metaIn.desc = {"ds.plugin.name"}
    /\ metaIn.blob.state = "json" /\ DOMAIN metaIn.blob.annotations = AnnotationKeys
    /\ metaIn.index.state = "json" /\ DOMAIN metaIn.index.annotations = AnnotationKeys
    /\ metaOut.metadata = metaIn.desc

(***************************************************************************)
(* Specifications                                                          *)
(***************************************************************************)

\* concurrent PullArtifact calls on one cache root
Init == InitPull /\ SelectParked /\ PushParked /\ TarParked /\ ExportParked /\ CredParked
    /\ StoreParked /\ MetaParked

Spec == Init /\ [][Next]_vars

\* PullArtifact calls one after the other
SpecSeq == Init /\ [][NextSeq]_vars

\* selectManifests applied to every root and filter of the bounded sets
InitSel == InitSelect /\ InitPull /\ PushParked /\ TarParked /\ ExportParked /\ CredParked
    /\ StoreParked /\ MetaParked

SpecSelect == InitSel /\ [][NextSelect]_vars

\* one publish, from every call and registry of the bounded sets
InitPub == InitPush /\ InitPull /\ SelectParked /\ TarParked /\ ExportParked /\ CredParked
    /\ StoreParked /\ MetaParked

SpecPush == InitPub /\ [][NextPush]_vars

\* extractTarGz on every archive of the bounded set
InitExtract == InitTar /\ InitPull /\ SelectParked /\ PushParked /\ ExportParked /\ CredParked
    /\ StoreParked /\ MetaParked

SpecExtract == InitExtract /\ [][NextTar]_vars

\* one export, from every call of the bounded sets
InitExport == InitExp /\ InitPull /\ SelectParked /\ PushParked /\ TarParked /\ CredParked
    /\ StoreParked /\ MetaParked

SpecExport == InitExport /\ [][NextExport]_vars

\* the credential lookups, for every registry list and registry of the
\* bounded sets
InitCreds ==
    InitCred /\ InitPull /\ SelectParked /\ PushParked /\ TarParked /\ ExportParked /\ StoreParked
    /\ MetaParked

SpecCreds == InitCreds /\ [][NextCred]_vars

\* one publish followed by a pull of what was published
InitRound == InitRoundTrip /\ InitPull /\ SelectParked /\ TarParked /\ CredParked /\ StoreParked
    /\ MetaParked

SpecRoundTrip == InitRound /\ [][NextRoundTrip]_vars

\* Save and Delete calls on one installation store, in any order
InitInst ==
    InitStore /\ InitPull /\ SelectParked /\ PushParked /\ TarParked /\ ExportParked
    /\ CredParked /\ MetaParked

SpecStore == InitInst /\ [][NextStore]_vars

\* the metadata of one pull result, for every descriptor, blob and index.json
\* of the bounded sets
InitMetadata ==
    InitMeta /\ InitPull /\ SelectParked /\ PushParked /\ TarParked /\ ExportParked
    /\ CredParked /\ StoreParked

SpecMeta == InitMetadata /\ [][NextMeta]_vars

====
